---- MODULE Spec2Model ----
(***************************************************************************)
(* Rtain: metadata storage actor (WAL, snapshots, recovery), container    *)
(* metadata index, the daemon/child handshake of Run, client connections   *)
(* and their verbs, the network registry and its IPAM.                     *)
(***************************************************************************)
EXTENDS Integers, Sequences, FiniteSets, TLC

(***************************************************************************)
(* Bounds of the model.                                                    *)
(***************************************************************************)
\* operations submitted to the storage actor in one behaviour
MaxOps == 2
\* last reading of the seconds clock (current_time)
MaxTime == 2
\* failed WAL appends in one behaviour
MaxFail == 1
\* reads issued in one behaviour
MaxReads == 1
\* restarts of the daemon in one behaviour
MaxRestarts == 1
\* Run requests served in one behaviour
MaxRuns == 2
\* StorageConfig.max_snapshots / max_wals of the modelled daemon
CfgMaxSnapshots == 1
CfgMaxWals == 1
\* longest operation sequence of the WAL round trip
MaxSeqLen == 2

\* depth of the mpsc channel of the storage actor
ChanCap == 128

(***************************************************************************)
(* Data model: ContainerMeta, ContainerStatus, StorageOperation.           *)
(* Option<T> is a sequence of length 0 (None) or 1 (Some).  Fields that no *)
(* StorageOperation writes after construction (image, command, args,       *)
(* working_dir, user) are left out of the record.                          *)
(***************************************************************************)
None == <<>>
Some(v) == <<v>>

ContainerStatus ==
    <<"Creating", "Running", "Paused", "Restarting", "Removing", "Exited", "Dead">>

StatusIndex(s) == CHOOSE i \in 1..Len(ContainerStatus) : ContainerStatus[i] = s

\* HashMap<String, String>: a function on a finite set of keys
EmptyMap == [k \in {} |-> ""]

\* ContainerState { status, pid, .. } : the fields the handlers read
ContainerState(status, pid) == [status |-> status, pid |-> pid]

\* ContainerMeta::new(id, name, image, command, args) at clock reading t
NewMeta(id, name, t) ==
    [id |-> id, name |-> name, created_at |-> t, updated_at |-> t,
     env |-> EmptyMap, labels |-> EmptyMap,
     state |-> ContainerState("Creating", None),
     network |-> None,
     resources |-> [memory_limit |-> None],
     mounts |-> <<>>]

\* ContainerMeta::set_running(pid)
SetRunning(meta, pid, t) ==
    [meta EXCEPT !.state = ContainerState("Running", Some(pid)), !.updated_at = t]

\* ContainerMeta::set_stopped
SetStopped(meta, t) ==
    [meta EXCEPT !.state = ContainerState("Exited", None), !.updated_at = t]

is_running(status) == status = "Running"
is_stopped(status) == status \in {"Exited", "Dead"}

\* InnerState::default()
EmptyState == [by_id |-> [i \in {} |-> 0], by_name |-> [n \in {} |-> ""]]

\* DashMap::insert / DashMap::remove
MapInsert(f, k, v) == [x \in (DOMAIN f) \cup {k} |-> IF x = k THEN v ELSE f[x]]
MapRemove(f, k) == [x \in (DOMAIN f) \ {k} |-> f[x]]

OpCreate(meta) == [type |-> "Create", meta |-> meta]
OpDelete(id) == [type |-> "Delete", id |-> id]
OpUpdateStatus(id, status) == [type |-> "UpdateStatus", id |-> id, status |-> status]
OpUpdateState(id, state) == [type |-> "UpdateState", id |-> id, state |-> state]
OpUpdateEnvironment(id, env) == [type |-> "UpdateEnvironment", id |-> id, env |-> env]
OpUpdateLabels(id, labels) == [type |-> "UpdateLabels", id |-> id, labels |-> labels]
OpUpdateResources(id, res) == [type |-> "UpdateResources", id |-> id, resources |-> res]
OpAttachNetwork(id, net) == [type |-> "AttachNetwork", id |-> id, network |-> net]
OpDetachNetwork(id) == [type |-> "DetachNetwork", id |-> id]
OpAddMount(id, mount) == [type |-> "AddMount", id |-> id, mount |-> mount]
OpRemoveMount(id, dest) == [type |-> "RemoveMount", id |-> id, destination |-> dest]
OpBatch(ops) == [type |-> "Batch", ops |-> ops]

\* Vec::retain(|m| m.destination != destination)
RECURSIVE Retain(_, _)
Retain(mounts, dest) ==
    IF mounts = <<>> THEN <<>>
    ELSE IF Head(mounts).destination # dest
         THEN <<Head(mounts)>> \o Retain(Tail(mounts), dest)
         ELSE Retain(Tail(mounts), dest)

\* an update through by_id.entry(id).or_insert(..): an id that is not there
\* gets a record
UpdateEntry_OrInsert(st, id, new) ==
    IF id \in DOMAIN st.by_id
    THEN [st EXCEPT !.by_id = [st.by_id EXCEPT ![id] = new]]
    ELSE [st EXCEPT !.by_id = MapInsert(st.by_id, id, NewMeta(id, "", 0))]

\* the `if let Some(mut entry) = self.by_id.get_mut(&id)` arms of apply_operation
UpdateEntry(st, id, new) ==
    IF id \in DOMAIN st.by_id
    THEN [st EXCEPT !.by_id = [st.by_id EXCEPT ![id] = new]]
    ELSE st

\* InnerState::apply_operation for every variant but Batch, at clock reading t
ApplyPrim(st, op, t) ==
    LET e == st.by_id[op.id] IN
    CASE op.type = "Create" ->
           [by_name |-> MapInsert(st.by_name, op.meta.name, op.meta.id),
            by_id |-> MapInsert(st.by_id, op.meta.id, op.meta)]
      [] op.type = "Delete" ->
           IF op.id \in DOMAIN st.by_id
           THEN [by_id |-> MapRemove(st.by_id, op.id),
                 by_name |-> MapRemove(st.by_name, st.by_id[op.id].name)]
           ELSE st
      [] op.type = "UpdateStatus" ->
           UpdateEntry(st, op.id, [e EXCEPT !.state.status = op.status, !.updated_at = t])
      [] op.type = "UpdateState" ->
           UpdateEntry(st, op.id, [e EXCEPT !.state = op.state, !.updated_at = t])
      [] op.type = "UpdateEnvironment" ->
           UpdateEntry(st, op.id, [e EXCEPT !.env = op.env, !.updated_at = t])
      [] op.type = "UpdateLabels" ->
           UpdateEntry(st, op.id, [e EXCEPT !.labels = op.labels, !.updated_at = t])
      [] op.type = "UpdateResources" ->
           UpdateEntry(st, op.id, [e EXCEPT !.resources = op.resources, !.updated_at = t])
      [] op.type = "AttachNetwork" ->
           UpdateEntry(st, op.id, [e EXCEPT !.network = Some(op.network), !.updated_at = t])
      [] op.type = "DetachNetwork" ->
           UpdateEntry(st, op.id, [e EXCEPT !.network = None, !.updated_at = t])
      [] op.type = "AddMount" ->
           UpdateEntry(st, op.id, [e EXCEPT !.mounts = Append(e.mounts, op.mount), !.updated_at = t])
      [] op.type = "RemoveMount" ->
           UpdateEntry(st, op.id,
                       [e EXCEPT !.mounts = Retain(e.mounts, op.destination), !.updated_at = t])

\* the children of a Batch in the order apply_operation visits them
RECURSIVE Flatten(_)
Flatten(op) ==
    LET RECURSIVE FlattenAll(_)
        FlattenAll(ops) ==
            IF ops = <<>> THEN <<>> ELSE Flatten(Head(ops)) \o FlattenAll(Tail(ops))
    IN IF op.type = "Batch" THEN FlattenAll(op.ops) ELSE <<op>>

RECURSIVE ApplyPrims(_, _, _)
ApplyPrims(st, prims, t) ==
    IF prims = <<>> THEN st ELSE ApplyPrims(ApplyPrim(st, Head(prims), t), Tail(prims), t)

\* apply_operation that stops after the first child of a Batch
apply_operation_First(st, op, t) ==
    IF op.type = "Batch"
    THEN (IF op.ops = <<>> THEN st ELSE ApplyPrims(st, Flatten(Head(op.ops)), t))
    ELSE ApplyPrims(st, Flatten(op), t)

\* InnerState::apply_operation
apply_operation(st, op, t) == ApplyPrims(st, Flatten(op), t)

(***************************************************************************)
(* bincode layout of a StorageOperation, one cell per byte-sized unit:     *)
(* enum variant index first, strings / vectors / maps prefixed by their    *)
(* length, Option as a 0/1 tag followed by the value.                      *)
(***************************************************************************)
\* the strings of the model and their UTF-8 bytes
Strings == {"", "a", "b", "c", "n", "m", "k", "v", "/d", "/s", "br"}

StrBytes(s) ==
    CASE s = "" -> <<>>
      [] s = "a" -> <<97>>
      [] s = "b" -> <<98>>
      [] s = "c" -> <<99>>
      [] s = "n" -> <<110>>
      [] s = "m" -> <<109>>
      [] s = "k" -> <<107>>
      [] s = "v" -> <<118>>
      [] s = "/d" -> <<47, 100>>
      [] s = "/s" -> <<47, 115>>
      [] s = "br" -> <<98, 114>>

SerStr(s) == <<Len(StrBytes(s))>> \o StrBytes(s)

SerOpt(o) == IF o = None THEN <<0>> ELSE <<1, o[1]>>

\* the keys of a map in a fixed order
RECURSIVE KeySeq(_)
KeySeq(S) ==
    IF S = {} THEN <<>>
    ELSE LET k == CHOOSE x \in S : \A y \in S : Len(StrBytes(x)) <= Len(StrBytes(y))
         IN <<k>> \o KeySeq(S \ {k})

RECURSIVE SerEntries(_, _)
SerEntries(f, keys) ==
    IF keys = <<>> THEN <<>>
    ELSE SerStr(Head(keys)) \o SerStr(f[Head(keys)]) \o SerEntries(f, Tail(keys))

SerMap(f) == <<Cardinality(DOMAIN f)>> \o SerEntries(f, KeySeq(DOMAIN f))

SerState(state) == <<StatusIndex(state.status) - 1>> \o SerOpt(state.pid)

SerMount(m) == SerStr(m.source) \o SerStr(m.destination)

RECURSIVE SerMounts(_)
SerMounts(ms) == IF ms = <<>> THEN <<>> ELSE SerMount(Head(ms)) \o SerMounts(Tail(ms))

SerNetwork(n) == SerStr(n.network_name)

SerResources(r) == SerOpt(r.memory_limit)

SerMeta(m) ==
    SerStr(m.id) \o SerStr(m.name) \o <<m.created_at, m.updated_at>>
    \o SerMap(m.env) \o SerMap(m.labels) \o SerState(m.state)
    \o (IF m.network = None THEN <<0>> ELSE <<1>> \o SerNetwork(m.network[1]))
    \o SerResources(m.resources)
    \o <<Len(m.mounts)>> \o SerMounts(m.mounts)

\* bincode::serialize(op)
RECURSIVE Serialize(_)
Serialize(op) ==
    LET RECURSIVE SerAll(_)
        SerAll(ops) == IF ops = <<>> THEN <<>> ELSE Serialize(Head(ops)) \o SerAll(Tail(ops))
    IN
    CASE op.type = "Create" -> <<0>> \o SerMeta(op.meta)
      [] op.type = "Delete" -> <<1>> \o SerStr(op.id)
      [] op.type = "UpdateStatus" -> <<2>> \o SerStr(op.id) \o <<StatusIndex(op.status) - 1>>
      [] op.type = "UpdateState" -> <<3>> \o SerStr(op.id) \o SerState(op.state)
      [] op.type = "UpdateEnvironment" -> <<4>> \o SerStr(op.id) \o SerMap(op.env)
      [] op.type = "UpdateLabels" -> <<5>> \o SerStr(op.id) \o SerMap(op.labels)
      [] op.type = "UpdateResources" -> <<6>> \o SerStr(op.id) \o SerResources(op.resources)
      [] op.type = "AttachNetwork" -> <<7>> \o SerStr(op.id) \o SerNetwork(op.network)
      [] op.type = "DetachNetwork" -> <<8>> \o SerStr(op.id)
      [] op.type = "AddMount" -> <<9>> \o SerStr(op.id) \o SerMount(op.mount)
      [] op.type = "RemoveMount" -> <<10>> \o SerStr(op.id) \o SerStr(op.destination)
      [] op.type = "Batch" -> <<11, Len(op.ops)>> \o SerAll(op.ops)

(***************************************************************************)
(* The operations the model submits.                                       *)
(***************************************************************************)
Pids == {7}

MetaInputs(t) ==
    {NewMeta("a", "n", t), NewMeta("a", "m", t), SetRunning(NewMeta("b", "n", t), 7, t)}

Mount1 == [source |-> "/s", destination |-> "/d"]
Net1 == [network_name |-> "br"]
Map1 == [x \in {"k"} |-> "v"]

\* what the callers of the storage actor submit at clock reading t
OpInputs(t) ==
    {OpCreate(m) : m \in MetaInputs(t)}
    \cup {OpDelete("a"),
          OpUpdateStatus("a", "Running"), OpUpdateStatus("b", "Creating"),
          OpBatch(<<OpCreate(NewMeta("a", "n", t)), OpUpdateStatus("a", "Running")>>)}

\* the operations of the durability runs
DurInputs(t) ==
    {OpCreate(NewMeta("a", "n", t)), OpAddMount("a", Mount1)}

\* the operations of the WAL round trip: every variant
SeqInputs(t) ==
    OpInputs(t) \cup DurInputs(t)
    \cup {OpDelete("b"), OpUpdateStatus("a", "Exited"),
          OpCreate(NewMeta("b", "m", t)),
          OpUpdateState("a", ContainerState("Exited", None)),
          OpRemoveMount("a", "/d"), OpAttachNetwork("a", Net1), OpDetachNetwork("a"),
          OpUpdateEnvironment("a", Map1), OpUpdateLabels("a", Map1),
          OpUpdateResources("a", [memory_limit |-> Some(5)])}

\* the operations of the WAL maintenance runs: entries validate_operation
\* accepts and entries whose id or name is the empty string
IntegrityInputs(t) ==
    {OpCreate(NewMeta("a", "n", t)), OpCreate(NewMeta("", "n", t)),
     OpCreate(NewMeta("a", "", t)),
     OpDelete("a"), OpDelete(""), OpUpdateStatus("", "Running"),
     OpUpdateState("", ContainerState("Exited", None)),
     OpAddMount("a", Mount1), OpAddMount("", Mount1), OpRemoveMount("", "/d"),
     OpBatch(<<OpCreate(NewMeta("a", "n", t)), OpDelete("")>>),
     OpBatch(<<OpDelete(""), OpUpdateStatus("", "Running")>>)}

\* every operation that can stand in a WAL of the model
OpUniverse == UNION {SeqInputs(t) \cup IntegrityInputs(t) : t \in 0..(MaxTime + 1)}

\* bincode::deserialize(op_data): the operation with that encoding, if any
Deserialize(bytes) ==
    IF \E op \in OpUniverse : Serialize(op) = bytes
    THEN [ok |-> TRUE, op |-> CHOOSE op \in OpUniverse : Serialize(op) = bytes]
    ELSE [ok |-> FALSE, op |-> OpDelete("")]

(***************************************************************************)
(* WAL file: frames of an 8-byte little-endian length and the payload.     *)
(***************************************************************************)
\* u64::to_le_bytes
RECURSIVE LeDigits(_, _)
LeDigits(n, k) == IF k = 0 THEN <<>> ELSE <<n % 256>> \o LeDigits(n \div 256, k - 1)

ToLeBytes(n) == LeDigits(n, 8)

\* u64::from_le_bytes; a value of 2^24 or more stands for itself as "longer
\* than any file of the model"
FromLeBytes(b) ==
    IF \E i \in 4..8 : b[i] # 0 THEN 256 * 256 * 256
    ELSE b[1] + 256 * b[2] + 256 * 256 * b[3]

\* the bytes write_operation appends for op
Frame(op) == ToLeBytes(Len(Serialize(op))) \o Serialize(op)

\* data[from..to] of the source, 0-based and half-open
Slice(data, from, to) == SubSeq(data, from + 1, to)

\* WalManager::read_operations on the bytes of current.wal, from offset index:
\* "panic" is a slice out of range, "err" a bincode error
RECURSIVE ReadFrom(_, _, _)
ReadFrom(data, index, acc) ==
    IF ~(index < Len(data)) THEN [res |-> "ok", ops |-> acc]
    ELSE IF index + 8 > Len(data) THEN [res |-> "panic", ops |-> <<>>]
    ELSE LET length == FromLeBytes(Slice(data, index, index + 8))
             end == index + 8 + length
         IN IF end > Len(data) THEN [res |-> "panic", ops |-> <<>>]
            ELSE LET d == Deserialize(Slice(data, index + 8, end))
                 IN IF ~d.ok THEN [res |-> "err", ops |-> <<>>]
                    ELSE ReadFrom(data, end, Append(acc, d.op))

\* a file is <<>> when it does not exist and <<bytes>> when it does
NoFile == <<>>

read_operations(file) ==
    IF file = NoFile THEN [res |-> "ok", ops |-> <<>>] ELSE ReadFrom(file[1], 0, <<>>)

\* OpenOptions::new().create(true).append(true) followed by the bytes written
AppendBytes(file, bytes) == IF file = NoFile THEN <<bytes>> ELSE <<file[1] \o bytes>>

(***************************************************************************)
(* Files of the snapshot and archive directories.  A directory is a        *)
(* sequence of files ordered by modification time, oldest first, which is  *)
(* the order sort_by_key(modified) gives.                                  *)
(***************************************************************************)
TmpName == <<"tmp.snapshot", 0>>
SnapshotName(t) == <<"snapshot", t>>
ArchiveName(t) == <<"wal", t>>

\* the entries of dir without the file called name
RECURSIVE WithoutFile(_, _)
WithoutFile(dir, name) ==
    IF dir = <<>> THEN <<>>
    ELSE IF Head(dir).name = name THEN WithoutFile(Tail(dir), name)
         ELSE <<Head(dir)>> \o WithoutFile(Tail(dir), name)

\* tokio::fs::write(path, data): the file becomes the newest of its directory
WriteFile(dir, name, data) == Append(WithoutFile(dir, name), [name |-> name, data |-> data])

\* tokio::fs::rename(from, to) inside one directory: replaces `to`, keeps the mtime
RenameFile(dir, from, to) ==
    LET d == WithoutFile(dir, to)
    IN [i \in 1..Len(d) |-> IF d[i].name = from THEN [d[i] EXCEPT !.name = to] ELSE d[i]]

\* entries.len().saturating_sub(max), then remove the first to_delete entries
PurgeOldest(dir, max) ==
    LET to_delete == IF Len(dir) > max THEN Len(dir) - max ELSE 0
    IN SubSeq(dir, to_delete + 1, Len(dir))

\* bincode::serialize(state) as written to a snapshot file; a file whose
\* write did not finish holds a truncated image
SnapshotData(st) == [complete |-> TRUE, st |-> st]
TruncatedData(st) == [complete |-> FALSE, st |-> st]

\* Snapshotter::load_latest
load_latest(dir) ==
    IF dir = <<>> THEN [ok |-> TRUE, st |-> EmptyState]
    ELSE LET data == dir[Len(dir)].data
         IN IF data.complete THEN [ok |-> TRUE, st |-> data.st]
            ELSE [ok |-> FALSE, st |-> EmptyState]

RECURSIVE ApplyAll(_, _, _)
ApplyAll(st, ops, t) ==
    IF ops = <<>> THEN st ELSE ApplyAll(apply_operation(st, Head(ops), t), Tail(ops), t)

\* StorageManager::recover_state at clock reading t
recover_state(dir, file, t) ==
    LET snap == load_latest(dir)
        entries == read_operations(file)
    IN IF ~snap.ok THEN [ok |-> FALSE, st |-> EmptyState]
       ELSE IF entries.res # "ok" THEN [ok |-> FALSE, st |-> EmptyState]
       ELSE [ok |-> TRUE, st |-> ApplyAll(snap.st, entries.ops, t)]

(***************************************************************************)
(* The storage actor.                                                      *)
(***************************************************************************)
VARIABLES
    state,      \* StorageInner.state: the InnerState in memory
    wal,        \* the file current.wal
    archive,    \* the directory wal/archive: NoFile when it does not exist
    snapshots,  \* the directory snapshots
    now,        \* current_time()
    chan,       \* the mpsc channel of (op, ack) pairs
    acks,       \* the oneshot channel of every submitted operation
    worker,     \* the worker loop: pc, the operation in hand, what is left to apply
    snap,       \* the snapshot task: pc and the final path it computed
    due,        \* timer ticks that have fired and not been served
    up,         \* the daemon runs
    observed,   \* the result of the latest read
    done,       \* the latest acknowledgement and the states around it
    log,        \* ack ids in WAL order and in apply order, states after each commit
    crash,      \* the memory image before and after the latest restart
    count,      \* failures, reads and restarts so far
    rt,         \* the WAL round trip: the operations written, the state recovered
    run,        \* one Run request: the daemon side, the child, their socket pair
    sess,       \* one client connection: the handler, do_run's tasks, the PTY, the files
    net,        \* the network registry: IPAM, networks, the saved file, the requests
    maint,      \* WAL maintenance: compaction and its temp file, the integrity report
    work        \* one container workspace: its directories and mounts

vars == <<state, wal, archive, snapshots, now, chan, acks, worker, snap, due, up,
          observed, done, log, crash, count, rt, run, sess, net, maint, work>>

WorkerIdle == [pc |-> "recv", op |-> OpDelete(""), ack |-> 0, todo |-> <<>>,
               pre |-> EmptyState, walpre |-> NoFile]
SnapIdle == [pc |-> "idle", name |-> SnapshotName(0)]
NoRead == [kind |-> "none", arg |-> "", res |-> [panic |-> FALSE, val |-> None]]
NoDone == [ack |-> 0, res |-> "none", op |-> OpDelete(""), pre |-> EmptyState,
           post |-> EmptyState, walpre |-> NoFile, walpost |-> NoFile]
NoCrash == [happened |-> FALSE, quiescent |-> FALSE, before |-> EmptyState,
            ok |-> FALSE, after |-> EmptyState, snap |-> "idle",
            finished |-> [ok |-> FALSE, st |-> EmptyState]]
NoRoundTrip == [pc |-> "off", ops |-> <<>>, rec |-> [ok |-> FALSE, st |-> EmptyState],
                batch |-> <<>>, before |-> EmptyState, at |-> 0]
NoRun == [pc |-> "off", child |-> "none", id |-> "", name |-> "", pid |-> 0,
          p_sock |-> <<>>, c_sock |-> <<>>, events |-> <<>>, n |-> 0,
          ws |-> "none", cg |-> "none"]
NoTask == [st |-> "off", buf |-> <<>>]
NoFiles == [f \in {} |-> <<>>]
NoCall == [op |-> "none", cidr |-> [ip |-> <<0, 0>>, p |-> 0], arg |-> <<0, 0>>, res |-> "none",
           val |-> <<0, 0>>, of |-> FALSE, pre |-> <<>>, undo |-> <<>>]
NoRegistry == [ipam |-> <<>>, networks |-> <<>>]
NoReq == [pc |-> "idle", name |-> "", subnet |-> [ip |-> <<0, 0>>, p |-> 0], driver |-> "",
          out |-> <<>>, res |-> "", gw |-> <<0, 0>>, overlap |-> FALSE,
          pre |-> NoRegistry, post |-> NoRegistry]
NoNet == [up |-> FALSE, checked |-> FALSE, n |-> 0, ipam |-> <<>>, last |-> NoCall,
          networks |-> <<>>, file |-> <<>>, saved |-> NoRegistry, bridges |-> {},
          lock |-> "", reqs |-> 0, restarts |-> 0,
          req |-> [c \in {"c1", "c2"} |-> NoReq],
          reload |-> [n |-> 0, from_file |-> FALSE, saved |-> NoRegistry, loaded |-> NoRegistry]]
NoReport == [total_operations |-> 0, errors |-> <<>>]
NoMaint == [pc |-> "idle", tmp |-> NoFile, snapshot_index |-> 0, todo |-> <<>>,
            old |-> NoFile, res |-> "none", report |-> NoReport, verified |-> NoFile,
            runs |-> 0, fails |-> 0, restarts |-> 0]
NoWs == [pc |-> "none", volume |-> None, root |-> FALSE, overlay |-> FALSE,
         bind |-> FALSE, through |-> FALSE, res |-> "none"]

\* how many containers get a workspace
MaxWorkspaces == 2

Workspaces == 1..MaxWorkspaces

NoWork == [ws |-> [w \in Workspaces |-> NoWs], host |-> "files"]
NoSess == [n |-> 0, pc |-> "idle", verb |-> "", target |-> "", detach |-> FALSE,
           id |-> "", released |-> FALSE, out |-> <<>>,
           client |-> "open", cin |-> <<>>, c_recv |-> <<>>, pty_in |-> <<>>,
           child |-> "none", produced |-> <<>>, pty |-> <<>>, m_read |-> <<>>,
           read_from_pty |-> NoTask, pipe |-> <<>>, pty_to_client |-> "off",
           client_to_pty |-> NoTask, pty_to_log |-> "off",
           check_child_exit |-> [st |-> "off", sig |-> FALSE],
           waited |-> FALSE, files |-> NoFiles, cgroups |-> {},
           stop_after_exit |-> FALSE,
           before |-> [state |-> EmptyState, files |-> NoFiles, cgroups |-> {}]]

\* inner.lock().await succeeds: neither the worker nor the snapshot task holds the mutex
LockFree == worker.pc = "recv" /\ snap.pc = "idle"

Init ==
    /\ state = EmptyState
    /\ wal = NoFile
    /\ archive \in {NoFile, <<<<>>>>}
    /\ snapshots = <<>>
    /\ now = 0
    /\ chan = <<>>
    /\ acks = <<>>
    /\ worker = WorkerIdle
    /\ snap = SnapIdle
    /\ due = [snapshot |-> FALSE, cleanup |-> FALSE]
    /\ up = TRUE
    /\ observed = NoRead
    /\ done = NoDone
    /\ log = [wal |-> <<>>, applied |-> <<>>, commits |-> <<EmptyState>>]
    /\ crash = NoCrash
    /\ count = [fails |-> 0, reads |-> 0, restarts |-> 0]
    /\ rt = NoRoundTrip
    /\ run = NoRun
    /\ sess = NoSess
    /\ net = NoNet
    /\ maint = NoMaint
    /\ work = NoWork

\* StorageManager::execute: send (op, ack_tx) into the channel
Execute(op) ==
    /\ up
    /\ Len(acks) < MaxOps
    /\ Len(chan) < ChanCap
    /\ chan' = Append(chan, [op |-> op, ack |-> Len(acks) + 1])
    /\ acks' = Append(acks, "pending")
    /\ UNCHANGED <<state, wal, archive, snapshots, now, worker, snap, due, up,
                   observed, done, log, crash, count>>
    /\ UNCHANGED <<rt, run, sess, net, maint, work>>

\* worker loop: op_recver.recv() and inner.lock()
WorkerRecv ==
    /\ up
    /\ LockFree
    /\ chan # <<>>
    /\ worker' = [pc |-> "locked", op |-> Head(chan).op, ack |-> Head(chan).ack,
                  todo |-> Flatten(Head(chan).op), pre |-> state, walpre |-> wal]
    /\ chan' = Tail(chan)
    /\ UNCHANGED <<state, wal, archive, snapshots, now, acks, snap, due, up,
                   observed, done, log, crash, count>>
    /\ UNCHANGED <<rt, run, sess, net, maint, work>>

\* WalManager::write_operation succeeds
WorkerWriteWal ==
    /\ up
    /\ worker.pc = "locked"
    /\ wal' = AppendBytes(wal, Frame(worker.op))
    /\ worker' = [worker EXCEPT !.pc = "written"]
    /\ log' = [log EXCEPT !.wal = Append(@, worker.ack)]
    /\ UNCHANGED <<state, archive, snapshots, now, chan, acks, snap, due, up,
                   observed, done, crash, count>>
    /\ UNCHANGED <<rt, run, sess, net, maint, work>>

\* where write_operation can fail: the open (-1: nothing is created), the
\* write_all of the length (no byte written), the write_all of the payload
\* (the length written and no payload, or all but the last byte)
FailPoints(op) == {-1, 0, 8, Len(Frame(op)) - 1}

\* the bytes a failed write_operation leaves behind
FailedAppend(file, op, written) ==
    IF written < 0 THEN file ELSE AppendBytes(file, SubSeq(Frame(op), 1, written))

\* the worker loop without the `continue` after the failed append: the error
\* is sent and the operation is applied all the same
WorkerWriteFail_Applies ==
    /\ up
    /\ worker.pc = "locked"
    /\ count.fails < MaxFail
    /\ \E written \in FailPoints(worker.op) :
          /\ wal' = FailedAppend(wal, worker.op, written)
          /\ state' = apply_operation(state, worker.op, now)
          /\ done' = [ack |-> worker.ack, res |-> "err", op |-> worker.op,
                      pre |-> worker.pre, post |-> state',
                      walpre |-> worker.walpre, walpost |-> wal']
    /\ acks' = [acks EXCEPT ![worker.ack] = "err"]
    /\ worker' = WorkerIdle
    /\ count' = [count EXCEPT !.fails = @ + 1]
    /\ UNCHANGED <<archive, snapshots, now, chan, snap, due, up,
                   observed, log, crash>>
    /\ UNCHANGED <<rt, run, sess, net, maint, work>>

\* WalManager::write_operation fails: ack_tx.send(Err(e)); continue
WorkerWriteFail ==
    /\ up
    /\ worker.pc = "locked"
    /\ count.fails < MaxFail
    /\ \E written \in FailPoints(worker.op) :
          /\ wal' = FailedAppend(wal, worker.op, written)
          /\ done' = [ack |-> worker.ack, res |-> "err", op |-> worker.op,
                      pre |-> worker.pre, post |-> state,
                      walpre |-> worker.walpre, walpost |-> wal']
    /\ acks' = [acks EXCEPT ![worker.ack] = "err"]
    /\ worker' = WorkerIdle
    /\ count' = [count EXCEPT !.fails = @ + 1]
    /\ UNCHANGED <<state, archive, snapshots, now, chan, snap, due, up,
                   observed, log, crash>>
    /\ UNCHANGED <<rt, run, sess, net, maint, work>>

\* state.apply_operation(op): one arm of the match per step; after the last
\* one ack_tx.send(Ok(())) and the mutex guard is dropped
WorkerApply ==
    /\ up
    /\ worker.pc = "written"
    /\ worker.todo # <<>>
    /\ state' = ApplyPrim(state, Head(worker.todo), now)
    /\ IF Len(worker.todo) = 1
       THEN /\ acks' = [acks EXCEPT ![worker.ack] = "ok"]
            /\ worker' = WorkerIdle
            /\ done' = [ack |-> worker.ack, res |-> "ok", op |-> worker.op,
                        pre |-> worker.pre, post |-> state',
                        walpre |-> worker.walpre, walpost |-> wal]
            /\ log' = [log EXCEPT !.applied = Append(@, worker.ack),
                                  !.commits = Append(@, state')]
       ELSE /\ worker' = [worker EXCEPT !.todo = Tail(@)]
            /\ UNCHANGED <<acks, done, log>>
    /\ UNCHANGED <<wal, archive, snapshots, now, chan, snap, due, up, observed, crash, count>>
    /\ UNCHANGED <<rt, run, sess, net, maint, work>>

\* get_meta_by_id / get_meta_by_name / get_all_metas on an InnerState;
\* get_meta_by_name unwraps the by_id lookup
Query(st, kind, arg) ==
    CASE kind = "by_id" ->
           [panic |-> FALSE,
            val |-> IF arg \in DOMAIN st.by_id THEN Some(st.by_id[arg]) ELSE None]
      [] kind = "by_name" ->
           IF arg \notin DOMAIN st.by_name THEN [panic |-> FALSE, val |-> None]
           ELSE IF st.by_name[arg] \in DOMAIN st.by_id
                THEN [panic |-> FALSE, val |-> Some(st.by_id[st.by_name[arg]])]
                ELSE [panic |-> TRUE, val |-> None]
      [] kind = "all" -> [panic |-> FALSE, val |-> Some(st.by_id)]

ReadInputs == {<<"by_id", "a">>, <<"by_name", "n">>, <<"all", "">>}

\* a reader that clones the state without taking the mutex
Read_Unlocked(kind, arg) ==
    /\ up
    /\ count.reads < MaxReads
    /\ observed' = [kind |-> kind, arg |-> arg, res |-> Query(state, kind, arg)]
    /\ count' = [count EXCEPT !.reads = @ + 1]
    /\ UNCHANGED <<state, wal, archive, snapshots, now, chan, acks, worker, snap, due, up,
                   done, log, crash>>
    /\ UNCHANGED <<rt, run, sess, net, maint, work>>

\* a reader: lock inner, clone what it asked for
Read(kind, arg) ==
    /\ up
    /\ LockFree
    /\ count.reads < MaxReads
    /\ observed' = [kind |-> kind, arg |-> arg, res |-> Query(state, kind, arg)]
    /\ count' = [count EXCEPT !.reads = @ + 1]
    /\ UNCHANGED <<state, wal, archive, snapshots, now, chan, acks, worker, snap, due, up,
                   done, log, crash>>
    /\ UNCHANGED <<rt, run, sess, net, maint, work>>

\* snapshot task: the timer fired, lock inner; take_snapshot computes the
\* final path and starts writing tmp.snapshot
SnapshotBegin ==
    /\ up
    /\ LockFree
    /\ due.snapshot
    /\ due' = [due EXCEPT !.snapshot = FALSE]
    /\ snap' = [pc |-> "writing", name |-> SnapshotName(now)]
    /\ snapshots' = WriteFile(snapshots, TmpName, TruncatedData(state))
    /\ UNCHANGED <<state, wal, archive, now, chan, acks, worker, up,
                   observed, done, log, crash, count>>
    /\ UNCHANGED <<rt, run, sess, net, maint, work>>

\* take_snapshot: tokio::fs::write(&tmp_path, &data) has finished
SnapshotWrite ==
    /\ up
    /\ snap.pc = "writing"
    /\ snap' = [snap EXCEPT !.pc = "written"]
    /\ snapshots' = WriteFile(snapshots, TmpName, SnapshotData(state))
    /\ UNCHANGED <<state, wal, archive, now, chan, acks, worker, due, up,
                   observed, done, log, crash, count>>
    /\ UNCHANGED <<rt, run, sess, net, maint, work>>

\* take_snapshot: tokio::fs::rename(tmp_path, final_path); the guard is dropped
SnapshotRename ==
    /\ up
    /\ snap.pc = "written"
    /\ snap' = SnapIdle
    /\ snapshots' = RenameFile(snapshots, TmpName, snap.name)
    /\ UNCHANGED <<state, wal, archive, now, chan, acks, worker, due, up,
                   observed, done, log, crash, count>>
    /\ UNCHANGED <<rt, run, sess, net, maint, work>>

\* WalManager::rotate: fails when current.wal or the archive directory is missing
RotateOk == wal # NoFile /\ archive # NoFile

\* cleanup task: purge_old_snapshots()?; rotate()?; purge_old_archives()?
Cleanup ==
    /\ up
    /\ LockFree
    /\ due.cleanup
    /\ due' = [due EXCEPT !.cleanup = FALSE]
    /\ snapshots' = PurgeOldest(snapshots, CfgMaxSnapshots)
    /\ IF RotateOk
       THEN /\ wal' = NoFile
            /\ archive' = <<PurgeOldest(WriteFile(archive[1], ArchiveName(now), wal[1]),
                                        CfgMaxWals)>>
       ELSE UNCHANGED <<wal, archive>>
    /\ UNCHANGED <<state, now, chan, acks, worker, snap, up, observed, done, log, crash, count>>
    /\ UNCHANGED <<rt, run, sess, net, maint, work>>

\* a second passes; both interval timers may fire once more
Tick ==
    /\ up
    /\ now < MaxTime
    /\ now' = now + 1
    /\ due' = [snapshot |-> TRUE, cleanup |-> TRUE]
    /\ UNCHANGED <<state, wal, archive, snapshots, chan, acks, worker, snap, up,
                   observed, done, log, crash, count>>
    /\ UNCHANGED <<rt, run, sess, net, maint, work>>

\* the daemon is killed and started again: StorageManager::new recovers the
\* state from the files; every task and channel of the old process is gone
Restart ==
    /\ up
    /\ count.restarts < MaxRestarts
    /\ LET rec == recover_state(snapshots, wal, now)
       IN /\ up' = rec.ok
          /\ state' = rec.st
          /\ log' = [wal |-> <<>>, applied |-> <<>>, commits |-> <<rec.st>>]
    /\ crash' = [happened |-> TRUE,
                 quiescent |-> LockFree /\ chan = <<>>,
                 before |-> state, ok |-> up', after |-> state', snap |-> snap.pc,
                 finished |-> recover_state(WithoutFile(snapshots, TmpName), wal, now)]
    /\ chan' = <<>>
    /\ acks' = [i \in 1..Len(acks) |-> IF acks[i] = "pending" THEN "lost" ELSE acks[i]]
    /\ worker' = WorkerIdle
    /\ snap' = SnapIdle
    /\ due' = [snapshot |-> FALSE, cleanup |-> FALSE]
    /\ observed' = NoRead
    /\ done' = NoDone
    /\ count' = [count EXCEPT !.restarts = @ + 1]
    /\ UNCHANGED <<wal, archive, snapshots, now>>
    /\ UNCHANGED <<rt, run, sess, net, maint, work>>

\* one iteration of the worker loop on an operation a caller has sent, when
\* the append succeeds: write_operation, apply_operation, ack_tx.send(Ok(()))
Commit(op) ==
    /\ up
    /\ LockFree
    /\ Len(acks) < MaxOps
    /\ wal' = AppendBytes(wal, Frame(op))
    /\ state' = apply_operation(state, op, now)
    /\ acks' = Append(acks, "ok")
    /\ done' = [ack |-> Len(acks) + 1, res |-> "ok", op |-> op, pre |-> state,
                post |-> state', walpre |-> wal, walpost |-> wal']
    /\ log' = [wal |-> Append(log.wal, Len(acks) + 1),
               applied |-> Append(log.applied, Len(acks) + 1),
               commits |-> Append(log.commits, state')]
    /\ UNCHANGED <<archive, snapshots, now, chan, worker, snap, due, up, observed, crash, count>>
    /\ UNCHANGED <<rt, run, sess, net, maint, work>>

\* the actor within one reading of the clock: callers, the worker loop, readers
Next ==
    \/ \E op \in OpInputs(now) : Execute(op)
    \/ WorkerRecv
    \/ WorkerWriteWal
    \/ WorkerWriteFail
    \/ WorkerApply
    \/ \E q \in ReadInputs : Read(q[1], q[2])

Spec == Init /\ [][Next]_vars

\* the actor with its timers, over a restart of the daemon
NextDur ==
    \/ \E op \in DurInputs(now) : Commit(op)
    \/ SnapshotBegin
    \/ SnapshotWrite
    \/ SnapshotRename
    \/ Cleanup
    \/ Tick
    \/ Restart

SpecDur == Init /\ [][NextDur]_vars

\* ---------------------------------------------------------------------------
\* The WAL round trip

\* one more operation of the sequence: applied to the InnerState that started
\* fresh, and written to the WAL by write_operation
RoundTripStep(op) ==
    /\ rt.pc \in {"off", "writing"}
    /\ Len(rt.ops) < MaxSeqLen
    /\ state' = apply_operation(state, op, now)
    /\ wal' = AppendBytes(wal, Frame(op))
    /\ rt' = [rt EXCEPT !.pc = "writing", !.ops = Append(@, op)]
    /\ UNCHANGED <<archive, snapshots, now, chan, acks, worker, snap, due, up,
                   observed, done, log, crash, count, run, sess, net, maint, work>>

\* StorageManager::recover_state on the WAL written so far and a snapshot
\* directory that holds nothing
RoundTripRecover ==
    /\ rt.pc = "writing"
    /\ rt' = [rt EXCEPT !.pc = "recovered", !.rec = recover_state(snapshots, wal, now)]
    /\ UNCHANGED <<state, wal, archive, snapshots, now, chan, acks, worker, snap, due, up,
                   observed, done, log, crash, count, run, sess, net, maint, work>>

\* a sequence of operations applied and written, the clock running, then recovery
NextWal ==
    \/ \E op \in SeqInputs(now) : RoundTripStep(op)
    \/ Tick
    \/ RoundTripRecover

SpecWal == Init /\ [][NextWal]_vars

\* C5: what recovery from the empty snapshot and the WAL of a sequence of
\* operations returns has the by_id and by_name maps of the fresh InnerState
\* the same sequence was applied to.
C5_WalRoundTrip ==
    rt.pc = "recovered" => (rt.rec.ok /\ rt.rec.st = state)

\* ---------------------------------------------------------------------------
\* Run: the daemon side (run_container, run_prepare, do_run) and the cloned
\* child, synchronised over a socket pair

\* random_id(): sixteen random bytes, a fresh id for every request
Ids == <<"a", "b", "c">>

RandomId(n) == Ids[n + 1]

\* the names a Run request can carry: --name n, or none
RunNames == {Some("n"), None}

\* the record run_prepare registers: status Running with the pid of the child
RunMeta(name, id, pid, t) == SetRunning(NewMeta(id, name, t), pid, t)

Done(e) == [run EXCEPT !.events = Append(@, e)]

\* the request is over on both sides
RunOver == run.pc \in {"off", "failed", "proxy"} /\ run.child \in {"none", "exec", "exited"}

\* run_prepare: random_id, the name, openpty, StdUnixStream::pair
RunBegin(name) ==
    /\ up
    /\ RunOver
    /\ run.n < MaxRuns
    /\ run.n < Len(Ids)
    /\ LET id == RandomId(run.n)
       IN run' = [NoRun EXCEPT !.pc = "workspace", !.id = id, !.n = run.n + 1,
                               !.name = IF name = None THEN id ELSE name[1]]
    /\ UNCHANGED <<state, wal, archive, snapshots, now, chan, acks, worker, snap, due, up,
                   observed, done, log, crash, count, rt, sess, net, maint, work>>

\* new_workspace: the stages that can fail, and what each leaves under {root}:
\* create_ro_layer returns with `?` after {root}/image was created; the later
\* stages remove {root} before returning
WorkspaceStages == {"ro_layer", "rw_layer", "mount_point"}

WorkspaceLeft(stage) == IF stage = "ro_layer" THEN "partial" ELSE "none"

\* run_prepare: new_workspace(...)?
NewWorkspace ==
    /\ run.pc = "workspace"
    /\ \E stage \in WorkspaceStages \cup {"ok"} :
          run' = IF stage = "ok"
                 THEN [Done("new_workspace") EXCEPT !.pc = "clone", !.ws = "mounted"]
                 ELSE [run EXCEPT !.pc = "failed", !.ws = WorkspaceLeft(stage)]
    /\ UNCHANGED <<state, wal, archive, snapshots, now, chan, acks, worker, snap, due, up,
                   observed, done, log, crash, count, rt, sess, net, maint, work>>

\* run_prepare: new_container_process; on failure delete_workspace and return
NewContainerProcess ==
    /\ run.pc = "clone"
    /\ \E ok \in BOOLEAN :
          run' = IF ok THEN [Done("clone") EXCEPT !.pc = "wait_child", !.child = "stdio",
                                                  !.pid = 6 + run.n]
                 ELSE [Done("delete_workspace") EXCEPT !.pc = "failed", !.ws = "none"]
    /\ UNCHANGED <<state, wal, archive, snapshots, now, chan, acks, worker, snap, due, up,
                   observed, done, log, crash, count, rt, sess, net, maint, work>>

\* run_prepare: p_sock.read_exact(&mut buf); EXIT: delete_workspace and return
ParentRead ==
    /\ run.pc = "wait_child"
    /\ run.p_sock # <<>>
    /\ LET tok == Head(run.p_sock)
           r == [run EXCEPT !.p_sock = Tail(@)]
       IN run' = IF tok = "WAIT"
                 THEN [r EXCEPT !.pc = "cgroup", !.events = Append(@, "read_WAIT")]
                 ELSE [r EXCEPT !.pc = "failed", !.ws = "none",
                                !.events = Append(@, "delete_workspace")]
    /\ UNCHANGED <<state, wal, archive, snapshots, now, chan, acks, worker, snap, due, up,
                   observed, done, log, crash, count, rt, sess, net, maint, work>>

\* run_prepare: setup_cgroup; on failure write EXIT, delete_workspace, return
SetupCgroup ==
    /\ run.pc = "cgroup"
    /\ \E ok \in BOOLEAN :
          run' = IF ok THEN [Done("cgroup_attach") EXCEPT !.pc = "register",
                                                          !.cg = "present"]
                 ELSE [run EXCEPT
                          !.pc = "failed", !.ws = "none", !.c_sock = Append(@, "EXIT"),
                          !.events = @ \o <<"write_EXIT", "delete_workspace">>]
    /\ UNCHANGED <<state, wal, archive, snapshots, now, chan, acks, worker, snap, due, up,
                   observed, done, log, crash, count, rt, sess, net, maint, work>>

\* run_prepare: CONTAINER_METAS.register(cm) goes through the storage actor;
\* on an error write EXIT, delete_workspace, cg.delete, return
Register ==
    /\ run.pc = "register"
    /\ LockFree
    /\ LET op == OpCreate(RunMeta(run.name, run.id, run.pid, now))
       IN \/ /\ wal' = AppendBytes(wal, Frame(op))
             /\ state' = apply_operation(state, op, now)
             /\ run' = [Done("register") EXCEPT !.pc = "open_log"]
          \/ /\ run' = [run EXCEPT
                               !.pc = "failed", !.ws = "none", !.cg = "none",
                               !.c_sock = Append(@, "EXIT"),
                               !.events = @ \o <<"write_EXIT", "delete_workspace",
                                                 "cgroup_delete">>]
             /\ UNCHANGED <<state, wal>>
    /\ UNCHANGED <<archive, snapshots, now, chan, acks, worker, snap, due, up,
                   observed, done, log, crash, count, rt, sess, net, maint, work>>

\* do_run: open {root}/log.log; on failure write EXIT and return
OpenLog ==
    /\ run.pc = "open_log"
    /\ \E ok \in BOOLEAN :
          run' = IF ok THEN [run EXCEPT !.pc = "write_cont"]
                 ELSE [Done("write_EXIT") EXCEPT !.pc = "failed",
                                                 !.c_sock = Append(@, "EXIT")]
    /\ UNCHANGED <<state, wal, archive, snapshots, now, chan, acks, worker, snap, due, up,
                   observed, done, log, crash, count, rt, sess, net, maint, work>>

\* do_run: p_sock.write(b"CONT")
WriteCont ==
    /\ run.pc = "write_cont"
    /\ run' = [Done("write_CONT") EXCEPT !.pc = "proxy", !.c_sock = Append(@, "CONT")]
    /\ UNCHANGED <<state, wal, archive, snapshots, now, chan, acks, worker, snap, due, up,
                   observed, done, log, crash, count, rt, sess, net, maint, work>>

\* the steps of the child before it reports: setup_stdio, then in setup_mount
\* the private mount and switch_root (pivot_root), then the mount of /proc
ChildSteps == <<"stdio", "pivot_root", "mount_proc">>

StepIndex(step) == CHOOSE i \in DOMAIN ChildSteps : ChildSteps[i] = step

\* child_func: one step of the setup; on failure write EXIT and return -1
ChildSetup ==
    /\ run.child \in {ChildSteps[i] : i \in DOMAIN ChildSteps}
    /\ \E ok \in BOOLEAN :
          run' = IF ok
                 THEN [Done(run.child) EXCEPT
                          !.child = IF StepIndex(run.child) < Len(ChildSteps)
                                    THEN ChildSteps[StepIndex(run.child) + 1]
                                    ELSE "write_wait"]
                 ELSE [run EXCEPT !.child = "exited", !.p_sock = Append(@, "EXIT")]
    /\ UNCHANGED <<state, wal, archive, snapshots, now, chan, acks, worker, snap, due, up,
                   observed, done, log, crash, count, rt, sess, net, maint, work>>

\* child_func: c_sock.write(b"WAIT")
ChildWriteWait ==
    /\ run.child = "write_wait"
    /\ run' = [Done("write_WAIT") EXCEPT !.child = "read", !.p_sock = Append(@, "WAIT")]
    /\ UNCHANGED <<state, wal, archive, snapshots, now, chan, acks, worker, snap, due, up,
                   observed, done, log, crash, count, rt, sess, net, maint, work>>

\* a child that goes on to do_init whatever token it has read
ChildRead_AnyToken ==
    /\ run.child = "read"
    /\ run.c_sock # <<>>
    /\ run' = [run EXCEPT !.c_sock = Tail(@), !.child = "init",
                          !.events = Append(@, "read_" \o Head(run.c_sock))]
    /\ UNCHANGED <<state, wal, archive, snapshots, now, chan, acks, worker, snap, due, up,
                   observed, done, log, crash, count, rt, sess, net, maint, work>>

\* child_func: c_sock.read_exact(&mut buf); EXIT: return -1; CONT: go on
ChildRead ==
    /\ run.child = "read"
    /\ run.c_sock # <<>>
    /\ run' = [run EXCEPT !.c_sock = Tail(@),
                          !.child = IF Head(run.c_sock) = "CONT" THEN "init" ELSE "exited",
                          !.events = Append(@, "read_" \o Head(run.c_sock))]
    /\ UNCHANGED <<state, wal, archive, snapshots, now, chan, acks, worker, snap, due, up,
                   observed, done, log, crash, count, rt, sess, net, maint, work>>

\* do_init: execvp(command); when it fails the child returns -1
ChildExec ==
    /\ run.child = "init"
    /\ \E ok \in BOOLEAN :
          run' = [Done("execvp") EXCEPT !.child = IF ok THEN "exec" ELSE "exited"]
    /\ UNCHANGED <<state, wal, archive, snapshots, now, chan, acks, worker, snap, due, up,
                   observed, done, log, crash, count, rt, sess, net, maint, work>>

NextRun ==
    \/ \E name \in RunNames : RunBegin(name)
    \/ NewWorkspace
    \/ NewContainerProcess
    \/ ParentRead
    \/ SetupCgroup
    \/ Register
    \/ OpenLog
    \/ WriteCont
    \/ ChildSetup
    \/ ChildWriteWait
    \/ ChildRead
    \/ ChildExec

SpecRun == Init /\ [][NextRun]_vars

\* e has happened in this request
Happened(e) == \E i \in DOMAIN run.events : run.events[i] = e

\* when e has happened, every one of the events in before happened earlier
After(e, before) ==
    \A i \in DOMAIN run.events :
        run.events[i] = e =>
            \A b \in before : \E j \in 1..(i - 1) : run.events[j] = b

\* C10: the child calls execvp only after it has read CONT; the parent writes
\* CONT only after it has read WAIT, attached the child to the cgroup and
\* registered the metadata; the child writes WAIT only after its stdio setup,
\* pivot_root and the mount of /proc.
C10_HandshakeOrdering ==
    /\ After("execvp", {"read_CONT"})
    /\ After("write_CONT", {"read_WAIT", "cgroup_attach", "register"})
    /\ After("write_WAIT", {"stdio", "pivot_root", "mount_proc"})
    /\ run.child = "exec" => (Happened("execvp") /\ run.id \in DOMAIN state.by_id)

\* a request went all the way: the child has called execvp
C10_Witness ==
    run.child = "exec" /\ run.pc = "proxy" /\ Happened("write_CONT")

\* ---------------------------------------------------------------------------
\* One client connection: handler, the verb handlers, and do_run's proxy tasks

\* connections served one after the other; bytes the container writes to its
\* PTY; bytes the client sends while attached
MaxConns == 2
MaxOut == 1
MaxIn == 2

\* tokio::io::simplex(1)
SimplexCap == 1

Verbs == {"Run", "Exec", "Stop", "RM", "PS", "Logs"}

\* the container names a request can address
Targets == {"a", "b"}

\* the file do_run opens for the log writer, and the file show_logs reads
RunLogFile == "log.log"
LogsFile == "stdout.log"

\* ContainerStatus::stop()
StopStatus == "Exited"

\* Msg::send_to and the raw writes on the client socket, in the order written
Wrote(t, v) == [sess EXCEPT !.out = Append(@, [t |-> t, v |-> v])]

RECURSIVE RawBytes(_)
RawBytes(bytes) ==
    IF bytes = <<>> THEN <<>>
    ELSE <<[t |-> "byte", v |-> <<Head(bytes)>>]>> \o RawBytes(Tail(bytes))

FileWrite(files, path, bytes) ==
    [f \in DOMAIN files \cup {path} |-> IF f = path THEN bytes ELSE files[f]]

\* remove_dir_all({root})
RemoveDir(files, name) == [f \in {g \in DOMAIN files : g[1] # name} |-> files[f]]

get_meta_by_name(name) == Query(state, "by_name", name).val

\* the proxy tasks of an attached session run until the select has fired, those
\* of a detached one until waitpid has returned
Live == sess.pc \in {"select", "waitpid"}

\* a JoinHandle that goes out of scope without abort(): a task that has not
\* finished is detached from the session and runs on
Detach(st) == IF st \in {"off", "done"} THEN st ELSE "detached"

\* do_run has left the select! or the join!. Both select branches call
\* pty_to_client.abort() and drop the other handles; the detach branch calls
\* read_from_pty.abort() and pty_to_log.abort(). The simplex channel and the
\* buffers are no longer part of the session
Dropped(s) ==
    [s EXCEPT !.read_from_pty = [st |-> IF s.detach THEN "aborted" ELSE Detach(@.st),
                                 buf |-> <<>>],
              !.client_to_pty = [st |-> Detach(@.st), buf |-> <<>>],
              !.check_child_exit = [st |-> Detach(@.st), sig |-> FALSE],
              !.pty_to_client = IF @ = "off" THEN @ ELSE "aborted",
              !.pty_to_log = IF @ = "off" THEN @ ELSE "aborted",
              !.pipe = <<>>, !.pty = <<>>, !.cin = <<>>,
              !.m_read = <<>>, !.c_recv = <<>>, !.pty_in = <<>>]

\* handler: accept a connection, Msg::recv_from yields Req(cmd)
Handler(verb, target, detach) ==
    /\ up
    /\ sess.pc \in {"idle", "closed"}
    /\ sess.n < MaxConns
    /\ sess.n < Len(Ids)
    /\ sess' = [NoSess EXCEPT !.n = sess.n + 1, !.pc = "dispatch", !.verb = verb,
                              !.target = target, !.detach = detach,
                              !.files = sess.files, !.cgroups = sess.cgroups,
                              !.before = [state |-> state, files |-> sess.files,
                                          cgroups |-> sess.cgroups]]
    /\ UNCHANGED <<state, wal, archive, snapshots, now, chan, acks, worker, snap, due, up,
                   observed, done, log, crash, count, rt, run, net, maint, work>>

\* run_container, and do_run up to p_sock.write(b"CONT"): run_prepare fails and
\* Msg::Err is sent; or the record is registered and the log file cannot be
\* opened; or the log file is truncated, read_from_pty is spawned and the child
\* is released
RunContainer ==
    /\ sess.pc = "dispatch"
    /\ sess.verb = "Run"
    /\ LockFree
    /\ LET id == RandomId(sess.n - 1)
           op == OpCreate(RunMeta(id, id, 6 + sess.n, now))
       IN \/ /\ sess' = [Wrote("Err", <<>>) EXCEPT !.pc = "closed"]
             /\ UNCHANGED <<state, wal>>
          \/ /\ wal' = AppendBytes(wal, Frame(op))
             /\ state' = apply_operation(state, op, now)
             /\ sess' = [sess EXCEPT !.pc = "closed", !.id = id, !.cgroups = @ \cup {id}]
          \/ /\ wal' = AppendBytes(wal, Frame(op))
             /\ state' = apply_operation(state, op, now)
             /\ sess' = [sess EXCEPT !.pc = "branch", !.id = id, !.released = TRUE,
                                     !.stop_after_exit = TRUE, !.cgroups = @ \cup {id},
                                     !.child = "running", !.read_from_pty.st = "on",
                                     !.files = FileWrite(@, <<id, RunLogFile>>, <<>>)]
    /\ UNCHANGED <<archive, snapshots, now, chan, acks, worker, snap, due, up,
                   observed, done, log, crash, count, rt, run, net, maint, work>>

\* exec_container, and do_run up to p_sock.write(b"CONT"): no record, a record
\* that is not running or a failing exec_prepare send Msg::Err; then do_run
\* with detach = false and stop_after_exit = false, whose log file open either
\* fails or truncates the log of the container
ExecContainer ==
    /\ sess.pc = "dispatch"
    /\ sess.verb = "Exec"
    /\ LET meta == get_meta_by_name(sess.target)
       IN IF meta = None \/ ~is_running(meta[1].state.status)
          THEN sess' = [Wrote("Err", <<>>) EXCEPT !.pc = "closed"]
          ELSE \/ sess' = [Wrote("Err", <<>>) EXCEPT !.pc = "closed"]
               \/ sess' = [sess EXCEPT !.pc = "closed", !.id = meta[1].id]
               \/ sess' = [sess EXCEPT
                              !.pc = "branch", !.id = meta[1].id, !.released = TRUE,
                              !.child = "running", !.read_from_pty.st = "on",
                              !.files = FileWrite(@, <<meta[1].id, RunLogFile>>, <<>>)]
    /\ UNCHANGED <<state, wal, archive, snapshots, now, chan, acks, worker, snap, due, up,
                   observed, done, log, crash, count, rt, run, net, maint, work>>

\* a do_run that sends Msg::Continue before it looks at detach
Branch_ContinueAlways ==
    /\ sess.pc = "branch"
    /\ sess' = IF ~sess.detach
               THEN [Wrote("Continue", <<>>) EXCEPT
                        !.pc = "select", !.pty_to_client = "on",
                        !.client_to_pty.st = "on", !.check_child_exit.st = "spawned"]
               ELSE [Wrote("Continue", <<>>) EXCEPT !.pc = "waitpid", !.pty_to_log = "on"]
    /\ UNCHANGED <<state, wal, archive, snapshots, now, chan, acks, worker, snap, due, up,
                   observed, done, log, crash, count, rt, run, net, maint, work>>

\* do_run: if !detach send Msg::Continue and spawn pty_to_client, client_to_pty
\* and check_child_exit; else spawn pty_to_log
Branch ==
    /\ sess.pc = "branch"
    /\ sess' = IF ~sess.detach
               THEN [Wrote("Continue", <<>>) EXCEPT
                        !.pc = "select", !.pty_to_client = "on",
                        !.client_to_pty.st = "on", !.check_child_exit.st = "spawned"]
               ELSE [sess EXCEPT !.pc = "waitpid", !.pty_to_log = "on"]
    /\ UNCHANGED <<state, wal, archive, snapshots, now, chan, acks, worker, snap, due, up,
                   observed, done, log, crash, count, rt, run, net, maint, work>>

\* the container writes one byte to its terminal
ChildWrite ==
    /\ sess.child = "running"
    /\ Len(sess.produced) < MaxOut
    /\ LET b == Len(sess.produced) + 1
       IN sess' = [sess EXCEPT !.produced = Append(@, b), !.pty = Append(@, b)]
    /\ UNCHANGED <<state, wal, archive, snapshots, now, chan, acks, worker, snap, due, up,
                   observed, done, log, crash, count, rt, run, net, maint, work>>

\* the container process exits; the kernel raises SIGCHLD, which reaches the
\* signal stream of check_child_exit only if that stream exists by now
ChildExit ==
    /\ sess.child = "running"
    /\ sess' = [sess EXCEPT !.child = "zombie",
                            !.check_child_exit.sig =
                                @ \/ sess.check_child_exit.st = "listening"]
    /\ UNCHANGED <<state, wal, archive, snapshots, now, chan, acks, worker, snap, due, up,
                   observed, done, log, crash, count, rt, run, net, maint, work>>

\* SIGCHLD for another child of the daemon
OtherSigchld ==
    /\ sess.pc = "select"
    /\ sess.check_child_exit.st = "listening"
    /\ ~sess.check_child_exit.sig
    /\ sess' = [sess EXCEPT !.check_child_exit.sig = TRUE]
    /\ UNCHANGED <<state, wal, archive, snapshots, now, chan, acks, worker, snap, due, up,
                   observed, done, log, crash, count, rt, run, net, maint, work>>

\* the attached client types one byte
ClientSend ==
    /\ sess.pc = "select"
    /\ sess.client = "open"
    /\ Len(sess.c_recv) + Len(sess.cin) < MaxIn
    /\ sess' = [sess EXCEPT !.cin = Append(@, Len(sess.c_recv) + Len(sess.cin) + 1)]
    /\ UNCHANGED <<state, wal, archive, snapshots, now, chan, acks, worker, snap, due, up,
                   observed, done, log, crash, count, rt, run, net, maint, work>>

\* the attached client closes its end of the socket
ClientClose ==
    /\ sess.pc = "select"
    /\ sess.client = "open"
    /\ sess' = [sess EXCEPT !.client = "gone"]
    /\ UNCHANGED <<state, wal, archive, snapshots, now, chan, acks, worker, snap, due, up,
                   observed, done, log, crash, count, rt, run, net, maint, work>>

\* read_from_pty: read(master, &mut buffer) returns what the PTY holds
ReadFromPty ==
    /\ Live
    /\ sess.read_from_pty.st = "on"
    /\ sess.read_from_pty.buf = <<>>
    /\ sess.pty # <<>>
    /\ sess' = [sess EXCEPT !.read_from_pty.buf = sess.pty, !.pty = <<>>,
                            !.m_read = @ \o sess.pty]
    /\ UNCHANGED <<state, wal, archive, snapshots, now, chan, acks, worker, snap, due, up,
                   observed, done, log, crash, count, rt, run, net, maint, work>>

\* read_from_pty: container_sender.write_all(&buffer[..n]) moves what fits
SimplexWrite ==
    /\ Live
    /\ sess.read_from_pty.st = "on"
    /\ sess.read_from_pty.buf # <<>>
    /\ Len(sess.pipe) < SimplexCap
    /\ sess' = [sess EXCEPT !.pipe = Append(@, Head(sess.read_from_pty.buf)),
                            !.read_from_pty.buf = Tail(@)]
    /\ UNCHANGED <<state, wal, archive, snapshots, now, chan, acks, worker, snap, due, up,
                   observed, done, log, crash, count, rt, run, net, maint, work>>

\* pty_to_client: pty_reader.read, then client_writer.write_all; a write error
\* ends the task
PtyToClient ==
    /\ sess.pc = "select"
    /\ sess.pty_to_client = "on"
    /\ sess.pipe # <<>>
    /\ sess' = IF sess.client = "open"
               THEN [sess EXCEPT !.out = @ \o RawBytes(sess.pipe), !.pipe = <<>>]
               ELSE [sess EXCEPT !.pty_to_client = "done", !.pipe = <<>>]
    /\ UNCHANGED <<state, wal, archive, snapshots, now, chan, acks, worker, snap, due, up,
                   observed, done, log, crash, count, rt, run, net, maint, work>>

\* client_to_pty: client_reader.read; Ok(0) ends the task
ClientToPtyRead ==
    /\ sess.pc = "select"
    /\ sess.client_to_pty.st = "on"
    /\ sess.client_to_pty.buf = <<>>
    /\ \/ /\ sess.cin # <<>>
          /\ sess' = [sess EXCEPT !.client_to_pty.buf = sess.cin, !.cin = <<>>,
                                  !.c_recv = @ \o sess.cin]
       \/ /\ sess.cin = <<>>
          /\ sess.client = "gone"
          /\ sess' = [sess EXCEPT !.client_to_pty.st = "done"]
    /\ UNCHANGED <<state, wal, archive, snapshots, now, chan, acks, worker, snap, due, up,
                   observed, done, log, crash, count, rt, run, net, maint, work>>

\* client_to_pty: one write(fd, &buffer[..n]) on the non-blocking master; the
\* count it returns is not looked at; an error (k = 0) ends the task
ClientToPtyWrite ==
    /\ sess.pc = "select"
    /\ sess.client_to_pty.st = "on"
    /\ sess.client_to_pty.buf # <<>>
    /\ \E k \in 0..Len(sess.client_to_pty.buf) :
          sess' = IF k = 0
                  THEN [sess EXCEPT !.client_to_pty = [st |-> "done", buf |-> <<>>]]
                  ELSE [sess EXCEPT !.pty_in = @ \o SubSeq(sess.client_to_pty.buf, 1, k),
                                    !.client_to_pty.buf = <<>>]
    /\ UNCHANGED <<state, wal, archive, snapshots, now, chan, acks, worker, snap, due, up,
                   observed, done, log, crash, count, rt, run, net, maint, work>>

\* check_child_exit: signal(SignalKind::child()) creates the stream
SigRegister ==
    /\ sess.pc = "select"
    /\ sess.check_child_exit.st = "spawned"
    /\ sess' = [sess EXCEPT !.check_child_exit.st = "listening"]
    /\ UNCHANGED <<state, wal, archive, snapshots, now, chan, acks, worker, snap, due, up,
                   observed, done, log, crash, count, rt, run, net, maint, work>>

\* check_child_exit: sigchild.recv() returns, waitpid(pid, WNOHANG); StillAlive
\* goes round the loop
WaiterRecv ==
    /\ sess.pc = "select"
    /\ sess.check_child_exit.st = "listening"
    /\ sess.check_child_exit.sig
    /\ sess' = IF sess.child = "zombie"
               THEN [sess EXCEPT !.check_child_exit = [st |-> "done", sig |-> FALSE],
                                 !.child = "reaped", !.waited = TRUE]
               ELSE [sess EXCEPT !.check_child_exit.sig = FALSE]
    /\ UNCHANGED <<state, wal, archive, snapshots, now, chan, acks, worker, snap, due, up,
                   observed, done, log, crash, count, rt, run, net, maint, work>>

\* select!, branch client_to_pty: pty_to_client.abort()
SelectClient ==
    /\ sess.pc = "select"
    /\ sess.client_to_pty.st = "done"
    /\ sess' = Dropped([sess EXCEPT !.pc = "stop"])
    /\ UNCHANGED <<state, wal, archive, snapshots, now, chan, acks, worker, snap, due, up,
                   observed, done, log, crash, count, rt, run, net, maint, work>>

\* select!, branch check_child_exit: pty_to_client.abort(), write the
\* termination line, shutdown; write_all(..).unwrap() panics when the client
\* is gone
SelectChild ==
    /\ sess.pc = "select"
    /\ sess.check_child_exit.st = "done"
    /\ sess' = IF sess.client = "open"
               THEN Dropped([Wrote("line", <<>>) EXCEPT !.pc = "stop"])
               ELSE Dropped([sess EXCEPT !.pc = "closed"])
    /\ UNCHANGED <<state, wal, archive, snapshots, now, chan, acks, worker, snap, due, up,
                   observed, done, log, crash, count, rt, run, net, maint, work>>

\* pty_to_log: pty_reader.read, then log_file.write_all
PtyToLog ==
    /\ sess.pc = "waitpid"
    /\ sess.pty_to_log = "on"
    /\ sess.pipe # <<>>
    /\ LET path == <<sess.id, RunLogFile>>
       IN sess' = [sess EXCEPT !.files = FileWrite(@, path, sess.files[path] \o sess.pipe),
                               !.pipe = <<>>]
    /\ UNCHANGED <<state, wal, archive, snapshots, now, chan, acks, worker, snap, due, up,
                   observed, done, log, crash, count, rt, run, net, maint, work>>

\* detach branch: waitpid(child, None) returns, read_from_pty.abort(),
\* pty_to_log.abort()
WaitChild ==
    /\ sess.pc = "waitpid"
    /\ sess.child = "zombie"
    /\ sess' = Dropped([sess EXCEPT !.pc = "stop", !.child = "reaped", !.waited = TRUE])
    /\ UNCHANGED <<state, wal, archive, snapshots, now, chan, acks, worker, snap, due, up,
                   observed, done, log, crash, count, rt, run, net, maint, work>>

\* do_stop: cg.kill(), on an error return; else updates(id, ContainerStatus::stop())
do_stop(id, next) ==
    \/ /\ sess' = [next EXCEPT !.child = IF @ = "running" THEN "zombie" ELSE @]
       /\ wal' = AppendBytes(wal, Frame(OpUpdateStatus(id, StopStatus)))
       /\ state' = apply_operation(state, OpUpdateStatus(id, StopStatus), now)
    \/ /\ sess' = next
       /\ UNCHANGED <<state, wal>>

\* a do_run that stops the container whatever stop_after_exit says
StopAfterExit_Always ==
    /\ sess.pc = "stop"
    /\ LockFree
    /\ do_stop(sess.id, [sess EXCEPT !.pc = "closed"])
    /\ UNCHANGED <<archive, snapshots, now, chan, acks, worker, snap, due, up,
                   observed, done, log, crash, count, rt, run, net, maint, work>>

\* do_run: if stop_after_exit { do_stop(name, id) }, then the handler returns and
\* the connection is dropped
StopAfterExit ==
    /\ sess.pc = "stop"
    /\ LockFree
    /\ IF sess.stop_after_exit
       THEN do_stop(sess.id, [sess EXCEPT !.pc = "closed"])
       ELSE sess' = [sess EXCEPT !.pc = "closed"] /\ UNCHANGED <<state, wal>>
    /\ UNCHANGED <<archive, snapshots, now, chan, acks, worker, snap, due, up,
                   observed, done, log, crash, count, rt, run, net, maint, work>>

\* stop_container
StopContainer ==
    /\ sess.pc = "dispatch"
    /\ sess.verb = "Stop"
    /\ LockFree
    /\ LET meta == get_meta_by_name(sess.target)
       IN IF meta = None
          THEN /\ sess' = [Wrote("Err", <<>>) EXCEPT !.pc = "closed"]
               /\ UNCHANGED <<state, wal>>
          ELSE do_stop(meta[1].id, [Wrote("OkContent", <<>>) EXCEPT !.pc = "closed"])
    /\ UNCHANGED <<archive, snapshots, now, chan, acks, worker, snap, due, up,
                   observed, done, log, crash, count, rt, run, net, maint, work>>

\* remove_container
RemoveContainer ==
    /\ sess.pc = "dispatch"
    /\ sess.verb = "RM"
    /\ LockFree
    /\ LET meta == get_meta_by_name(sess.target)
       IN IF meta = None \/ is_running(meta[1].state.status)
          THEN /\ sess' = [sess EXCEPT !.pc = "closed"]
               /\ UNCHANGED <<state, wal>>
          ELSE /\ sess' = [Wrote("OkContent", <<>>) EXCEPT
                              !.pc = "closed", !.files = RemoveDir(@, meta[1].id),
                              !.cgroups = @ \ {meta[1].id}]
               /\ wal' = AppendBytes(wal, Frame(OpDelete(meta[1].id)))
               /\ state' = apply_operation(state, OpDelete(meta[1].id), now)
    /\ UNCHANGED <<archive, snapshots, now, chan, acks, worker, snap, due, up,
                   observed, done, log, crash, count, rt, run, net, maint, work>>

\* list_containers
ListContainers ==
    /\ sess.pc = "dispatch"
    /\ sess.verb = "PS"
    /\ sess' = [Wrote("OkContent", <<>>) EXCEPT !.pc = "closed"]
    /\ UNCHANGED <<state, wal, archive, snapshots, now, chan, acks, worker, snap, due, up,
                   observed, done, log, crash, count, rt, run, net, maint, work>>

\* show_logs
ShowLogs ==
    /\ sess.pc = "dispatch"
    /\ sess.verb = "Logs"
    /\ LET meta == get_meta_by_name(sess.target)
           path == <<meta[1].id, LogsFile>>
       IN sess' = IF meta = None \/ path \notin DOMAIN sess.files
                  THEN [Wrote("Err", <<>>) EXCEPT !.pc = "closed"]
                  ELSE [Wrote("OkContent", sess.files[path]) EXCEPT !.pc = "closed"]
    /\ UNCHANGED <<state, wal, archive, snapshots, now, chan, acks, worker, snap, due, up,
                   observed, done, log, crash, count, rt, run, net, maint, work>>

\* what the tokio runtime runs: the handler task and the tasks do_run spawned
DaemonStep ==
    \/ RunContainer
    \/ ExecContainer
    \/ Branch
    \/ ReadFromPty
    \/ SimplexWrite
    \/ PtyToClient
    \/ ClientToPtyRead
    \/ ClientToPtyWrite
    \/ SigRegister
    \/ WaiterRecv
    \/ SelectClient
    \/ SelectChild
    \/ PtyToLog
    \/ WaitChild
    \/ StopAfterExit
    \/ StopContainer
    \/ RemoveContainer
    \/ ListContainers
    \/ ShowLogs

\* clients, the container process and other children of the daemon
WorldStep ==
    \/ \E verb \in Verbs :
          \E target \in (IF verb \in {"Exec", "Stop", "RM", "Logs"} THEN Targets ELSE {""}) :
             \E detach \in (IF verb = "Run" THEN BOOLEAN ELSE {FALSE}) :
                Handler(verb, target, detach)
    \/ ChildWrite
    \/ ChildExit
    \/ OtherSigchld
    \/ ClientSend
    \/ ClientClose

NextSess == DaemonStep \/ WorldStep

\* the daemon has started on a fresh data directory
InitSess == Init /\ archive = NoFile

SpecSess == InitSess /\ [][NextSess]_vars

\* the tokio runtime polls every task that is ready: each step of the handler
\* and of the spawned tasks that stays enabled is eventually taken; clients,
\* containers and other children owe nothing
SessFairness ==
    /\ WF_vars(RunContainer)
    /\ WF_vars(ExecContainer)
    /\ WF_vars(Branch)
    /\ WF_vars(ReadFromPty)
    /\ WF_vars(SimplexWrite)
    /\ WF_vars(PtyToClient)
    /\ WF_vars(ClientToPtyRead)
    /\ WF_vars(ClientToPtyWrite)
    /\ WF_vars(SigRegister)
    /\ WF_vars(WaiterRecv)
    /\ WF_vars(SelectClient)
    /\ WF_vars(SelectChild)
    /\ WF_vars(PtyToLog)
    /\ WF_vars(WaitChild)
    /\ WF_vars(StopAfterExit)
    /\ WF_vars(StopContainer)
    /\ WF_vars(RemoveContainer)
    /\ WF_vars(ListContainers)
    /\ WF_vars(ShowLogs)

SpecSessFair == InitSess /\ [][NextSess]_vars /\ SessFairness

\* ---------------------------------------------------------------------------
\* Networks: the IPAM bitmaps (ipam.rs), the registry and Network Create
\* (network.rs), the bridge driver (bridge.rs)

\* IPAM method calls in one run of the IPAM specification
MaxIpamOps == 4

\* u32 values are kept exactly, as two 16-bit limbs <<high, low>>
Limb == 2^16

U32Of(n) == <<n \div Limb, n % Limb>>

Lt32(a, b) == a[1] < b[1] \/ (a[1] = b[1] /\ a[2] < b[2])

\* a + b on u32: the wrapped sum, and whether the true sum left the u32 range
Add32(a, b) ==
    LET lo == a[2] + b[2]
        hi == a[1] + b[1] + (lo \div Limb)
    IN  [v |-> <<hi % Limb, lo % Limb>>, of |-> hi >= Limb]

\* a - b on u32: the wrapped difference, and whether the true one is negative
Sub32(a, b) ==
    LET lo == a[2] - b[2]
        hi == a[1] - b[1] - (IF lo < 0 THEN 1 ELSE 0)
    IN  [v |-> <<(hi + Limb) % Limb, (lo + Limb) % Limb>>, of |-> hi < 0]

Not32(a) == <<Limb - 1 - a[1], Limb - 1 - a[2]>>

RECURSIVE BitAnd(_, _)
BitAnd(x, y) ==
    IF x = 0 \/ y = 0 THEN 0
    ELSE (x % 2) * (y % 2) + 2 * BitAnd(x \div 2, y \div 2)

And32(a, b) == <<BitAnd(a[1], b[1]), BitAnd(a[2], b[2])>>

\* usize as u32
Trunc32(a) == <<a[1] % Limb, a[2]>>

\* 2^n for 0 <= n <= 31
Pow2(n) == IF n < 16 THEN <<0, 2^n>> ELSE <<2^(n - 16), 0>>

\* 2u32.pow(n), 0 <= n <= 32: 2^32 does not fit and wraps to 0
pow(n) == IF n = 32 THEN [v |-> <<0, 0>>, of |-> TRUE] ELSE [v |-> Pow2(n), of |-> FALSE]

\* 1u32 << n, 0 <= n <= 32: a shift by the full width overflows; without
\* overflow checks the shift amount is taken modulo 32
shl(n) == IF n = 32 THEN [v |-> <<0, 1>>, of |-> TRUE] ELSE [v |-> Pow2(n), of |-> FALSE]

Ipv4(a, b, c, d) == <<a * 256 + b, c * 256 + d>>

\* the string "ip/p"
Cidr(ip, p) == [ip |-> ip, p |-> p]

\* the CIDR strings callers pass: an aligned /30, a /30 whose address is not
\* the network base, a /31, a /32, a /0 and a prefix length over 32
Cidrs ==
    { Cidr(Ipv4(10, 0, 0, 0), 30), Cidr(Ipv4(10, 0, 0, 6), 30),
      Cidr(Ipv4(10, 0, 1, 0), 31), Cidr(Ipv4(10, 0, 2, 1), 32),
      Cidr(Ipv4(0, 0, 0, 0), 0), Cidr(Ipv4(10, 0, 3, 0), 33) }

\* addresses callers pass to release_ip besides the ones allocate_ip returned
Addrs == { Ipv4(10, 0, 0, 0), Ipv4(10, 0, 0, 2), Ipv4(10, 0, 0, 3) }

NoAddr == Ipv4(0, 0, 0, 0)

\* BitVec<u8>: its length in bits and the positions of the bits that are set
BitVecNew(len) == [len |-> len, ones |-> {}]

\* BitVec::first_zero: the lowest clear position, <<>> when there is none
first_zero(bitmap) ==
    LET k == CHOOSE i \in 0..Cardinality(bitmap.ones) :
                 /\ U32Of(i) \notin bitmap.ones
                 /\ \A j \in 0..(i - 1) : U32Of(j) \in bitmap.ones
    IN  IF Lt32(U32Of(k), bitmap.len) THEN <<U32Of(k)>> ELSE <<>>

Insert(map, k, v) == [x \in DOMAIN map \cup {k} |-> IF x = k THEN v ELSE map[x]]

\* what an IPAM method leaves: Ok, an Err message or a panic; the value
\* returned; the subnets map; whether some u32 operation overflowed
IpamResult(res, val, subnets, of) == [res |-> res, val |-> val, subnets |-> subnets, of |-> of]

\* IPAM::parse_cidr
parse_cidr(cidr) == IF cidr.p > 32 THEN "Invalid prefix length" ELSE "ok"

\* let mask = !((1 << (32 - prefix_len)) - 1)
Mask(prefix_len) ==
    LET one == shl(32 - prefix_len)
    IN  [v |-> Not32(Sub32(one.v, U32Of(1)).v), of |-> one.of]

\* IPAM::calculate_ip
calculate_ip(cidr, index) ==
    LET mask == Mask(cidr.p)
        host_part == Add32(And32(cidr.ip, mask.v), index)
    IN  [v |-> host_part.v, of |-> mask.of \/ host_part.of]

\* IPAM::ip_to_index: Err, or the index with the overflow of the mask and of
\* ip - subnet - 1
ip_to_index(subnet, ip, prefix_len) ==
    LET mask == Mask(prefix_len)
        d1 == Sub32(ip, subnet)
        d2 == Sub32(d1.v, U32Of(1))
    IN  IF And32(subnet, mask.v) # And32(ip, mask.v)
        THEN [res |-> "IP not in subnet", v |-> NoAddr, of |-> mask.of]
        ELSE [res |-> "ok", v |-> d2.v, of |-> mask.of \/ d1.of \/ d2.of]

\* IPAM::add_subnet. With overflow checks the first overflow panics; without
\* them the arithmetic wraps.
add_subnet(subnets, cidr, checked) ==
    LET p2 == pow(32 - cidr.p)
        total_ips == Sub32(p2.v, U32Of(2))
        of == p2.of \/ total_ips.of
    IN  IF cidr \in DOMAIN subnets
        THEN IpamResult("Subnet already exists", NoAddr, subnets, FALSE)
        ELSE IF parse_cidr(cidr) # "ok"
        THEN IpamResult(parse_cidr(cidr), NoAddr, subnets, FALSE)
        ELSE IF of /\ checked
        THEN IpamResult("panic", NoAddr, subnets, TRUE)
        ELSE IpamResult("ok", NoAddr, Insert(subnets, cidr, BitVecNew(total_ips.v)), of)

\* an allocate_ip that numbers the hosts from the network base itself
allocate_ip_FromBase(subnets, cidr, checked) ==
    IF cidr \notin DOMAIN subnets
    THEN IpamResult("Subnet not found", NoAddr, subnets, FALSE)
    ELSE LET bitmap == subnets[cidr]
             pos == first_zero(bitmap)
         IN  IF pos = <<>>
             THEN IpamResult("No available IP", NoAddr, subnets, FALSE)
             ELSE LET set == [subnets EXCEPT ![cidr].ones = @ \cup {pos[1]}]
                      ip == calculate_ip(cidr, Trunc32(pos[1]))
                  IN  IF ip.of /\ checked
                      THEN IpamResult("panic", NoAddr, set, TRUE)
                      ELSE IpamResult("ok", ip.v, set, ip.of)

\* IPAM::allocate_ip: the bit is set before calculate_ip runs
allocate_ip(subnets, cidr, checked) ==
    IF cidr \notin DOMAIN subnets
    THEN IpamResult("Subnet not found", NoAddr, subnets, FALSE)
    ELSE LET bitmap == subnets[cidr]
             pos == first_zero(bitmap)
         IN  IF pos = <<>>
             THEN IpamResult("No available IP", NoAddr, subnets, FALSE)
             ELSE LET set == [subnets EXCEPT ![cidr].ones = @ \cup {pos[1]}]
                      index == Add32(Trunc32(pos[1]), U32Of(1))
                      ip == calculate_ip(cidr, index.v)
                      of == index.of \/ ip.of
                  IN  IF of /\ checked
                      THEN IpamResult("panic", NoAddr, set, TRUE)
                      ELSE IpamResult("ok", ip.v, set, of)

\* IPAM::release_ip: the index is computed before the subnet is looked up
release_ip(subnets, cidr, ip, checked) ==
    IF parse_cidr(cidr) # "ok"
    THEN IpamResult(parse_cidr(cidr), NoAddr, subnets, FALSE)
    ELSE LET pos == ip_to_index(cidr.ip, ip, cidr.p)
         IN  IF pos.of /\ checked
             THEN IpamResult("panic", NoAddr, subnets, TRUE)
             ELSE IF pos.res # "ok"
             THEN IpamResult(pos.res, NoAddr, subnets, pos.of)
             ELSE IF cidr \notin DOMAIN subnets
             THEN IpamResult("Subnet not found", NoAddr, subnets, pos.of)
             ELSE IF ~Lt32(pos.v, subnets[cidr].len)
             THEN IpamResult("IP out of range", NoAddr, subnets, pos.of)
             ELSE IF pos.v \notin subnets[cidr].ones
             THEN IpamResult("IP not allocated", NoAddr, subnets, pos.of)
             ELSE IpamResult("ok", NoAddr,
                             [subnets EXCEPT ![cidr].ones = @ \ {pos.v}], pos.of)

\* IPAM::allocate_specific_ip
allocate_specific_ip(subnets, cidr, index, checked) ==
    IF cidr \notin DOMAIN subnets
    THEN IpamResult("Subnet not found", NoAddr, subnets, FALSE)
    ELSE IF ~Lt32(index, Trunc32(subnets[cidr].len))
    THEN IpamResult("IP out of range", NoAddr, subnets, FALSE)
    ELSE IF index \in subnets[cidr].ones
    THEN IpamResult("IP already allocated", NoAddr, subnets, FALSE)
    ELSE LET set == [subnets EXCEPT ![cidr].ones = @ \cup {index}]
             next == Add32(index, U32Of(1))
             ip == calculate_ip(cidr, next.v)
             of == next.of \/ ip.of
         IN  IF of /\ checked
             THEN IpamResult("panic", NoAddr, set, TRUE)
             ELSE IpamResult("ok", ip.v, set, of)

\* IPAM::allocate_gateway
allocate_gateway(subnets, cidr, checked) == allocate_specific_ip(subnets, cidr, U32Of(0), checked)

\* the daemon starts: Networks::load finds no file and returns the empty
\* registry; the binary was built with or without overflow checks
Boot(checked) ==
    /\ ~net.up
    /\ net' = [net EXCEPT !.up = TRUE, !.checked = checked]
    /\ UNCHANGED <<state, wal, archive, snapshots, now, chan, acks, worker, snap, due, up,
                   observed, done, log, crash, count, rt, run, sess, maint, work>>

\* the subnets map before the call just made, when that call was an
\* allocate_ip on cidr that returned ip; <<>> otherwise
Allocated(cidr, ip) ==
    IF net.last.op = "allocate_ip" /\ net.last.res = "ok" /\ net.last.cidr = cidr
       /\ net.last.val = ip
    THEN <<net.last.pre>> ELSE <<>>

\* one IPAM method call and what it left
Called(op, cidr, arg, r) ==
    /\ net.up
    /\ net.n < MaxIpamOps
    /\ net' = [net EXCEPT !.n = @ + 1,
                          !.ipam = r.subnets,
                          !.last = [op |-> op, cidr |-> cidr, arg |-> arg, res |-> r.res,
                                    val |-> r.val, of |-> r.of, pre |-> net.ipam,
                                    undo |-> IF op = "release_ip" THEN Allocated(cidr, arg)
                                             ELSE <<>>]]
    /\ UNCHANGED <<state, wal, archive, snapshots, now, chan, acks, worker, snap, due, up,
                   observed, done, log, crash, count, rt, run, sess, maint, work>>

AddSubnet(cidr) == Called("add_subnet", cidr, NoAddr, add_subnet(net.ipam, cidr, net.checked))

AllocateIp(cidr) == Called("allocate_ip", cidr, NoAddr, allocate_ip(net.ipam, cidr, net.checked))

ReleaseIp(cidr, ip) == Called("release_ip", cidr, ip, release_ip(net.ipam, cidr, ip, net.checked))

AllocateGateway(cidr) ==
    Called("allocate_gateway", cidr, NoAddr, allocate_gateway(net.ipam, cidr, net.checked))

\* the addresses a caller holds: the fixed ones and what the last call returned
Held == Addrs \cup {net.last.val}

NextIpam ==
    \/ \E checked \in BOOLEAN : Boot(checked)
    \/ \E cidr \in Cidrs : AddSubnet(cidr)
    \/ \E cidr \in Cidrs : AllocateIp(cidr)
    \/ \E cidr \in Cidrs : \E ip \in Held : ReleaseIp(cidr, ip)
    \/ \E cidr \in Cidrs : AllocateGateway(cidr)

SpecIpam == Init /\ [][NextIpam]_vars

\* Network Create requests in one run, daemon restarts in one run
MaxNetReqs == 2
MaxNetRestarts == 1

NetClients == {"c1", "c2"}
NetNames == {"n1", "n2"}
Drivers == {"bridge", "host"}

\* the subnets clients ask for: an aligned /30, a /30 whose address is not
\* the network base, a /31 and a /32
NetCidrs ==
    { Cidr(Ipv4(10, 0, 0, 0), 30), Cidr(Ipv4(10, 0, 0, 6), 30),
      Cidr(Ipv4(10, 0, 1, 0), 31), Cidr(Ipv4(10, 0, 2, 1), 32) }

\* the steps of BridgeDriver::create_network that can fail
DriverStages == {"create_bridge", "set_bridge_ip", "set_link_up", "set_basic_iptables"}

\* struct Network
Network(name, cidr, gateway, driver) ==
    [name |-> name, cidr |-> cidr, gateway |-> gateway, driver |-> driver]

\* the Networks value in memory: its ipam and networks fields
Registry == [ipam |-> net.ipam, networks |-> net.networks]

\* the byte that holds position pos of a bit-vector, and the position of bit b
\* of byte j
ByteIndex(pos) == pos[1] * (Limb \div 8) + pos[2] \div 8
BitPos(j, b) == <<j \div (Limb \div 8), (j % (Limb \div 8)) * 8 + b>>

RECURSIVE ByteOf(_, _, _)
ByteOf(ones, j, b) ==
    IF b = 8 THEN 0
    ELSE (IF BitPos(j, b) \in ones THEN 2^b ELSE 0) + ByteOf(ones, j, b + 1)

\* BitVec::as_raw_slice().to_vec(): the bytes that hold the bits, as their
\* number and the nonzero ones by index; the bit length is not part of it
as_raw_slice(bitmap) ==
    [n |-> bitmap.len[1] * (Limb \div 8) + (bitmap.len[2] + 7) \div 8,
     nz |-> [j \in {ByteIndex(pos) : pos \in bitmap.ones} |-> ByteOf(bitmap.ones, j, 0)]]

\* BitVec::from_vec: every bit of every byte is live
from_vec(bytes) ==
    [len |-> BitPos(bytes.n, 0),
     ones |-> {BitPos(j, b) : <<j, b>> \in
                  {jb \in (DOMAIN bytes.nz) \X (0..7) : (bytes.nz[jb[1]] \div 2^(jb[2])) % 2 = 1}}]

\* serialize_subnets, deserialize_subnets
serialize_subnets(subnets) == [c \in DOMAIN subnets |-> as_raw_slice(subnets[c])]
deserialize_subnets(map) == [c \in DOMAIN map |-> from_vec(map[c])]

\* bincode::serialize and bincode::deserialize of Networks: the networks map
\* is written field by field (the gateway as its u32) and read back the same
serialize(value) == [ipam |-> serialize_subnets(value.ipam), networks |-> value.networks]
deserialize(contents) == [ipam |-> deserialize_subnets(contents.ipam), networks |-> contents.networks]

\* Networks::load
load(file) ==
    IF file = <<>> THEN NoRegistry ELSE deserialize(file[1])

NetErr == [t |-> "Err", v |-> <<>>]
NetOk == [t |-> "OkContent", v |-> <<>>]

\* a client connects with a Network Create request and the daemon spawns
\* the handler; overlap records that another handler is running
NetRequest(c, name, subnet, driver) ==
    /\ net.up
    /\ net.reqs < MaxNetReqs
    /\ net.req[c].pc \in {"idle", "done"}
    /\ LET busy == {o \in NetClients \ {c} : net.req[o].pc \notin {"idle", "done"}}
       IN  net' = [net EXCEPT
                !.reqs = @ + 1,
                !.req = [o \in NetClients |->
                    IF o = c
                    THEN [NoReq EXCEPT !.pc = "lock", !.name = name, !.subnet = subnet,
                                       !.driver = driver, !.overlap = busy # {}]
                    ELSE IF o \in busy THEN [net.req[o] EXCEPT !.overlap = TRUE]
                    ELSE net.req[o]]]
    /\ UNCHANGED <<state, wal, archive, snapshots, now, chan, acks, worker, snap, due, up,
                   observed, done, log, crash, count, rt, run, sess, maint, work>>

\* the handler returns: the guard is dropped, the stream is closed
Return(c, res, frames, registry) ==
    [net EXCEPT !.ipam = registry.ipam,
                !.networks = registry.networks,
                !.lock = "",
                !.req[c] = [@ EXCEPT !.pc = "done", !.res = res, !.out = frames,
                                     !.post = registry]]

\* a handler that goes on without the mutex
NetLock_Unlocked(c) ==
    /\ net.req[c].pc = "lock"
    /\ net' = [net EXCEPT !.req[c].pc = "check"]
    /\ UNCHANGED <<state, wal, archive, snapshots, now, chan, acks, worker, snap, due, up,
                   observed, done, log, crash, count, rt, run, sess, maint, work>>

\* NETWORKS.get().unwrap().lock().await
NetLock(c) ==
    /\ net.req[c].pc = "lock"
    /\ net.lock = ""
    /\ net' = [net EXCEPT !.lock = c, !.req[c].pc = "check"]
    /\ UNCHANGED <<state, wal, archive, snapshots, now, chan, acks, worker, snap, due, up,
                   observed, done, log, crash, count, rt, run, sess, maint, work>>

\* create_network up to the gateway: the name, the driver, add_subnet,
\* allocate_gateway. A panic drops the stream with no frame written.
NetCheck(c) ==
    /\ net.req[c].pc = "check"
    /\ LET r == net.req[c]
           added == add_subnet(net.ipam, r.subnet, net.checked)
           gateway == allocate_gateway(added.subnets, r.subnet, net.checked)
           Left(subnets) == [ipam |-> subnets, networks |-> net.networks]
       IN  net' =
           IF r.name \in DOMAIN net.networks
           THEN [Return(c, "network already exists", <<NetErr>>, Registry)
                    EXCEPT !.req[c].pre = Registry]
           ELSE IF r.driver # "bridge"
           THEN [Return(c, "invalid driver", <<NetErr>>, Registry)
                    EXCEPT !.req[c].pre = Registry]
           ELSE IF added.res = "panic"
           THEN [Return(c, "panic", <<>>, Left(added.subnets))
                    EXCEPT !.req[c].pre = Registry]
           ELSE IF added.res # "ok"
           THEN [Return(c, "add subnet fail", <<NetErr>>, Left(added.subnets))
                    EXCEPT !.req[c].pre = Registry]
           ELSE IF gateway.res = "panic"
           THEN [Return(c, "panic", <<>>, Left(gateway.subnets))
                    EXCEPT !.req[c].pre = Registry]
           ELSE IF gateway.res # "ok"
           THEN [Return(c, "allocate gateway fail", <<NetErr>>, Left(gateway.subnets))
                    EXCEPT !.req[c].pre = Registry]
           ELSE [net EXCEPT !.ipam = gateway.subnets,
                            !.req[c] = [@ EXCEPT !.pc = "driver", !.gw = gateway.val,
                                                 !.pre = Registry]]
    /\ UNCHANGED <<state, wal, archive, snapshots, now, chan, acks, worker, snap, due, up,
                   observed, done, log, crash, count, rt, run, sess, maint, work>>

\* BRIDGEDRIVER.create_network returns. Ok: the bridge exists and the success
\* frame is written. Err at some stage: a bridge that was created is deleted
\* again, the Err frame is written, release_ip is called and its result dropped.
NetDriver(c, stage) ==
    /\ net.req[c].pc = "driver"
    /\ LET r == net.req[c]
           released == release_ip(net.ipam, r.subnet, r.gw, net.checked)
       IN  net' =
           IF stage = "ok"
           THEN [net EXCEPT !.bridges = @ \cup {r.name},
                            !.req[c] = [@ EXCEPT !.pc = "insert", !.out = <<NetOk>>]]
           ELSE Return(c, "driver error", <<NetErr>>,
                       [ipam |-> released.subnets, networks |-> net.networks])
    /\ UNCHANGED <<state, wal, archive, snapshots, now, chan, acks, worker, snap, due, up,
                   observed, done, log, crash, count, rt, run, sess, maint, work>>

\* networks.insert(name, network); let _ = save(): the write can fail
NetInsert(c, written) ==
    /\ net.req[c].pc = "insert"
    /\ LET r == net.req[c]
           value == [ipam |-> net.ipam,
                     networks |-> Insert(net.networks, r.name,
                                         Network(r.name, r.subnet, r.gw, "bridge"))]
       IN  net' = [Return(c, "ok", r.out, value) EXCEPT
                      !.file = IF written THEN <<serialize(value)>> ELSE @,
                      !.saved = IF written THEN value ELSE @]
    /\ UNCHANGED <<state, wal, archive, snapshots, now, chan, acks, worker, snap, due, up,
                   observed, done, log, crash, count, rt, run, sess, maint, work>>

\* the daemon stops with no handler running and starts again: Networks::load
\* reads the file; the bridges stay in the kernel
NetRestart ==
    /\ net.up
    /\ net.restarts < MaxNetRestarts
    /\ \A c \in NetClients : net.req[c].pc \in {"idle", "done"}
    /\ LET loaded == load(net.file)
       IN  net' = [net EXCEPT !.restarts = @ + 1,
                              !.ipam = loaded.ipam,
                              !.networks = loaded.networks,
                              !.req = [c \in NetClients |-> NoReq],
                              !.reload = [n |-> net.restarts + 1, from_file |-> net.file # <<>>,
                                          saved |-> net.saved, loaded |-> loaded]]
    /\ UNCHANGED <<state, wal, archive, snapshots, now, chan, acks, worker, snap, due, up,
                   observed, done, log, crash, count, rt, run, sess, maint, work>>

NextNet ==
    \/ \E checked \in BOOLEAN : Boot(checked)
    \/ \E c \in NetClients : \E name \in NetNames : \E subnet \in NetCidrs :
           \E driver \in Drivers : NetRequest(c, name, subnet, driver)
    \/ \E c \in NetClients : NetLock(c)
    \/ \E c \in NetClients : NetCheck(c)
    \/ \E c \in NetClients : \E stage \in DriverStages \cup {"ok"} : NetDriver(c, stage)
    \/ \E c \in NetClients : \E written \in BOOLEAN : NetInsert(c, written)
    \/ NetRestart

SpecNet == Init /\ [][NextNet]_vars

\* ---------------------------------------------------------------------------
\* Durability

\* C1: when the daemon restarts with no operation in flight and no snapshot
\* being written, StorageManager::new recovers exactly the InnerState that was
\* in memory before the restart, whatever acknowledged operations, snapshot
\* ticks and cleanup ticks came before.
C1_DurabilityAcrossRestart ==
    (crash.happened /\ crash.quiescent) =>
        (crash.ok /\ crash.after = crash.before)

\* ---------------------------------------------------------------------------
\* The storage actor

\* the decoded content of a WAL file; a missing file holds nothing
WalContent(file) == read_operations(file)

\* C2: an operation acknowledged with Ok was appended to the WAL before the
\* memory changed and the memory reflects it; an operation acknowledged with
\* an error has left both the WAL and the memory as they were.
C2_CommitAtomicity ==
    /\ (worker.pc = "written" /\ worker.todo = Flatten(worker.op)) =>
          (state = worker.pre /\ wal = AppendBytes(worker.walpre, Frame(worker.op)))
    /\ done.res = "ok" =>
          /\ done.walpost = AppendBytes(done.walpre, Frame(done.op))
          /\ done.post = apply_operation(done.pre, done.op, now)
    /\ done.res = "err" =>
          /\ WalContent(done.walpost) = WalContent(done.walpre)
          /\ done.post = done.pre

\* C3: the step in which the worker acknowledges an operation with the error
\* of its WAL append leaves by_id and by_name as they were, leaves the queue
\* as it was, and ends with the worker back at recv for the next operation.
C3_AppendFailureIsolated ==
    [][(\E i \in DOMAIN acks : acks[i] = "pending" /\ acks'[i] = "err") =>
          /\ state' = state
          /\ chan' = chan
          /\ worker'.pc = "recv"
          /\ done'.res = "err" /\ done'.post = done'.pre]_vars

\* an append failed, and a later operation was processed and acknowledged Ok
C3_Witness ==
    \E i, j \in DOMAIN acks : i < j /\ acks[i] = "err" /\ acks[j] = "ok"

IsPrefix(s, t) == Len(s) <= Len(t) /\ SubSeq(t, 1, Len(s)) = s

\* C4: operations are applied to memory in the order of their WAL entries, and
\* what a read returns is what the same query returns on the state after some
\* prefix of the committed operations, never on a state in the middle of an
\* operation or of a Batch.
C4_ReadsSeeCommittedPrefix ==
    /\ IsPrefix(log.applied, log.wal)
    /\ Len(log.wal) <= Len(log.applied) + 1
    /\ worker.pc = "recv" => log.applied = log.wal
    /\ observed.kind # "none" =>
          \E k \in DOMAIN log.commits :
              observed.res = Query(log.commits[k], observed.kind, observed.arg)

\* a read returned a committed record while the worker had a two-step Batch
\* behind it or another operation still queued
C4_Witness ==
    /\ observed.kind = "all"
    /\ observed.res.val # Some(EmptyMap)
    /\ \/ chan # <<>>
       \/ done.res = "ok" /\ done.op.type = "Batch"

\* C6: after every applied operation every by_name entry refers to an id
\* present in by_id whose record has that name, and get_meta_by_name never
\* meets a name whose id is missing.
C6_IndexConsistency ==
    /\ worker.pc = "recv" =>
          \A n \in DOMAIN state.by_name :
              /\ state.by_name[n] \in DOMAIN state.by_id
              /\ state.by_id[state.by_name[n]].name = n
    /\ ~observed.res.panic

\* C7: at every commit by_name has as many entries as there are live records.
C7_NameUniqueness ==
    worker.pc = "recv" =>
        Cardinality(DOMAIN state.by_name) = Cardinality(DOMAIN state.by_id)

\* the position of a status in the lifecycle
\* Creating -> Running <-> Paused -> Exited -> Dead
LifecycleRank(s) ==
    CASE s = "Creating" -> 0
      [] s \in {"Running", "Paused", "Restarting"} -> 1
      [] s = "Exited" -> 2
      [] s = "Removing" -> 3
      [] s = "Dead" -> 4

\* C8: the status of a record never moves backward in the lifecycle except
\* from a stopped status to Running, and it changes only in a step that
\* applies UpdateStatus or UpdateState.
C8_StatusMonotonic ==
    [][\A id \in (DOMAIN state.by_id) \cap (DOMAIN state'.by_id) :
          LET s == state.by_id[id].state.status
              s2 == state'.by_id[id].state.status
          IN s2 # s =>
                /\ \/ LifecycleRank(s2) >= LifecycleRank(s)
                   \/ s \in {"Exited", "Dead"} /\ s2 = "Running"
                /\ worker.todo # <<>>
                /\ Head(worker.todo).type \in {"UpdateStatus", "UpdateState"}]_vars

\* C9: in every committed state a record whose status is Running carries a
\* pid, and the pid is not zero.
C9_RunningHasPid ==
    worker.pc = "recv" =>
        \A id \in DOMAIN state.by_id :
            state.by_id[id].state.status = "Running" =>
                /\ state.by_id[id].state.pid # None
                /\ state.by_id[id].state.pid # Some(0)


\* C11: a Run that has failed has released everything it acquired, in reverse
\* order of acquisition: no workspace directory or mount, no cgroup and no
\* metadata record of that container remains, and where both the cgroup and the
\* workspace were released the cgroup (acquired later) was released first.
C11_FailedRunReleasesAll ==
    run.pc = "failed" =>
        /\ run.ws = "none"
        /\ run.cg = "none"
        /\ run.id \notin DOMAIN state.by_id
        /\ Happened("cgroup_delete") => After("delete_workspace", {"cgroup_delete"})


\* ---------------------------------------------------------------------------
\* Connections and sessions

TerminatingFrames == {"Ok", "OkContent", "Err"}

\* how many items of the kinds in ts the daemon has written on the connection
Written(ts) == Cardinality({i \in DOMAIN sess.out : sess.out[i].t \in ts})

\* C12: on a connection whose Req the daemon has read, every handler path
\* writes exactly one terminating frame (Ok, OkContent or Err) or else writes
\* Continue and goes on to the raw stream; the connection is never closed with
\* no response frame and never carries two.
C12_OneResponseFrame ==
    /\ Written(TerminatingFrames) + Written({"Continue"}) <= 1
    /\ sess.pc = "closed" => Written(TerminatingFrames) + Written({"Continue"}) = 1


\* the session has entered the attached branch of do_run
Attached ==
    sess.verb \in {"Run", "Exec"} /\ ~sess.detach /\ sess.released /\ sess.pc # "branch"

\* C13: Continue is on the connection exactly when the session has entered
\* attached mode: once for an attached session, never for a detached one or
\* for another verb; every PTY byte and the termination line come after it,
\* and no framed message comes after it.
C13_ContinueOnlyWhenAttached ==
    /\ Written({"Continue"}) = (IF Attached THEN 1 ELSE 0)
    /\ \A i \in DOMAIN sess.out :
          sess.out[i].t \in {"byte", "line"} =>
              \E j \in 1..(i - 1) : sess.out[j].t = "Continue"
    /\ \A i \in DOMAIN sess.out : \A j \in DOMAIN sess.out :
          (i < j /\ sess.out[i].t = "Continue") =>
              sess.out[j].t \notin TerminatingFrames \cup {"Continue"}

\* an attached session whose client has received Continue, a PTY byte and the
\* termination line
C13_Witness ==
    /\ Attached
    /\ Len(sess.out) >= 3
    /\ sess.out[1].t = "Continue"
    /\ sess.out[2].t = "byte"
    /\ sess.out[Len(sess.out)].t = "line"


\* the session is in or past the detach branch of do_run
Detached ==
    sess.verb = "Run" /\ sess.detach /\ sess.released /\ sess.pc # "branch"

\* C14: a detached Run whose preparation succeeded is answered with Ok as
\* soon as the container is released: from the moment do_run waits for the
\* child, whether the child has exited or not, Ok is on the connection.
C14_DetachedRunAnsweredOk ==
    Detached => Written({"Ok"}) = 1

\* C15: an attached session that has ended, whichever branch of the select
\* ended it, has the termination line on the client socket by the time the
\* socket is closed.
C15_TerminationLineAlways ==
    (Attached /\ sess.pc = "closed") => Written({"line"}) = 1

\* C16: do_run with stop_after_exit applies the Stopped status only after
\* waitpid has observed the exit of the child, in attached and in detached
\* sessions and whichever select branch ended the session.
C16_StoppedAfterExitObserved ==
    (sess.verb = "Run" /\ sess.released
        /\ sess.id \in DOMAIN state.by_id
        /\ state.by_id[sess.id].state.status = StopStatus) => sess.waited

\* the PTY bytes delivered to the client so far, in the order delivered
RECURSIVE BytesOf(_)
BytesOf(out) ==
    IF out = <<>> THEN <<>>
    ELSE (IF Head(out).t = "byte" THEN Head(out).v ELSE <<>>) \o BytesOf(Tail(out))

\* C18: while an attached session is live, the bytes delivered to the client
\* are a prefix of the bytes read from the PTY master, in read order, and the
\* bytes written to the PTY master are a prefix of the bytes received from the
\* client, in receive order; once client_to_pty is back at its read, every
\* byte it received has been written to the PTY, none dropped.
C18_StreamsFifo ==
    (Attached /\ sess.pc = "select") =>
        /\ IsPrefix(BytesOf(sess.out), sess.m_read)
        /\ IsPrefix(sess.pty_in, sess.c_recv)
        /\ (sess.client_to_pty.st = "on" /\ sess.client_to_pty.buf = <<>>) =>
               sess.pty_in = sess.c_recv

\* C19: once the child of a detached Run has exited and do_run is past the
\* wait, log.log holds every byte the container wrote to its PTY, in the order
\* written.
C19_DetachedLogComplete ==
    (Detached /\ sess.pc \in {"stop", "closed"}) =>
        sess.files[<<sess.id, RunLogFile>>] = sess.produced

\* C20: Logs for an existing container whose Run has created log.log answers
\* with OkContent carrying the contents of that log.log.
C20_LogsReturnsRunLog ==
    (sess.verb = "Logs" /\ sess.pc = "closed" /\ get_meta_by_name(sess.target) # None
        /\ <<get_meta_by_name(sess.target)[1].id, RunLogFile>> \in DOMAIN sess.files) =>
        sess.out = <<[t |-> "OkContent",
                      v |-> sess.files[<<get_meta_by_name(sess.target)[1].id, RunLogFile>>]]>>


\* the waiter has observed the exit, the line is written, the connection closed
ExitReported ==
    sess.waited /\ Written({"line"}) = 1 /\ sess.pc = "closed"

\* the session ended from the client's side: the client went away, or the
\* select was left through the client_to_pty branch
EndedByClient ==
    sess.client = "gone" \/ (sess.pc \in {"stop", "closed"} /\ Written({"line"}) = 0)

\* C17: in an attached session, whenever the container process has exited,
\* at whatever moment relative to the start of check_child_exit, the waiter
\* eventually observes the exit and the daemon writes the termination line and
\* closes the connection (unless the client ends the session first).
C17_ExitEventuallyReported ==
    (Attached /\ sess.pc = "select" /\ sess.child = "zombie")
        ~> (ExitReported \/ EndedByClient)


\* the record the request addresses, as it was when the request arrived
TargetBefore == sess.before.state.by_id[sess.before.state.by_name[sess.target]]

\* the handler of the verb has returned on a request that addressed a record
Answered(verb) ==
    /\ sess.verb = verb
    /\ sess.pc = "closed"
    /\ sess.target \in DOMAIN sess.before.state.by_name

\* C21: Stop on an existing container, running or already stopped, replies
\* success and leaves the record with the stopped status; a Stop on a
\* container that was already stopped leaves the stored records as they were.
C21_StopIdempotent ==
    Answered("Stop") =>
        /\ sess.out = <<[t |-> "OkContent", v |-> <<>>]>>
        /\ state.by_id[TargetBefore.id].state.status = StopStatus
        /\ TargetBefore.state.status = StopStatus => state = sess.before.state

\* C22: RM addressed to a container whose record is Running is answered with
\* Err, and the record and the files of the container are left as they were.
C22_RmRunningRefused ==
    (Answered("RM") /\ is_running(TargetBefore.state.status)) =>
        /\ sess.out = <<[t |-> "Err", v |-> <<>>]>>
        /\ state = sess.before.state
        /\ sess.files = sess.before.files
        /\ sess.cgroups = sess.before.cgroups


\* C23: Exec creates no cgroup and never changes the stored status of a
\* container: throughout the connection of an Exec request, on every path of
\* exec_container and do_run, the cgroups and the stored records are what they
\* were when the request arrived.
C23_ExecLeavesStatus ==
    sess.verb = "Exec" =>
        /\ sess.cgroups = sess.before.cgroups
        /\ state = sess.before.state

\* an Exec session that went through the proxy phase: the exec'd process has
\* exited, was waited for, and the handler has returned
C23_Witness ==
    sess.verb = "Exec" /\ sess.pc = "closed" /\ sess.waited /\ Written({"line"}) = 1

\* ---------------------------------------------------------------------------
\* Networks

\* the clients whose create_network handler has returned
Returned == {c \in NetClients : net.req[c].pc = "done"}

\* two handlers for the same name that ran at the same time, both returned
Raced(c, o) ==
    /\ c # o
    /\ {c, o} \subseteq Returned
    /\ net.req[c].overlap /\ net.req[o].overlap
    /\ net.req[c].name = net.req[o].name

GatewayHeld(registry, subnet) ==
    subnet \in DOMAIN registry.ipam /\ U32Of(0) \in registry.ipam[subnet].ones

\* C25: when the bridge driver fails (bridge creation, address assignment,
\* link up or iptables) after allocate_gateway has set the gateway bit, the
\* bit is clear again when the handler has returned.
C25_GatewayReleasedOnFailure ==
    \A c \in Returned :
        net.req[c].res = "driver error" => ~GatewayHeld(net.req[c].post, net.req[c].subnet)

\* no create_network handler is running and one has returned
Quiet == Returned # {} /\ \A c \in NetClients : net.req[c].pc \in {"idle", "done"}

\* a subnet is reserved in IPAM exactly when a network in the map has it
IpamMatchesMap == DOMAIN net.ipam = {net.networks[k].cidr : k \in DOMAIN net.networks}

\* the saved file holds the networks and the subnets that are in memory
MemoryMatchesFile ==
    /\ DOMAIN load(net.file).networks = DOMAIN net.networks
    /\ DOMAIN load(net.file).ipam = DOMAIN net.ipam

\* the networks whose creation was answered with the success frame are in
\* the map and in the saved file
SuccessIsStored ==
    \A c \in Returned :
        net.req[c].out = <<NetOk>> =>
            /\ net.req[c].name \in DOMAIN net.networks
            /\ net.req[c].name \in DOMAIN load(net.file).networks

\* C26: whenever a Network Create has returned and none is running, IPAM and
\* the networks map agree on the reserved subnets, memory agrees with the
\* saved file, and every network reported as created is in the map and in
\* the file.
C26_RegistryConsistent ==
    Quiet => IpamMatchesMap /\ MemoryMatchesFile /\ SuccessIsStored

\* ---------------------------------------------------------------------------
\* IPAM

\* the number a u32 stands for, for the small ones
NatOf(a) == a[1] * Limb + a[2]

\* the address of the CIDR with its host bits cleared
NetworkBase(cidr) ==
    IF cidr.p = 0 THEN Ipv4(0, 0, 0, 0)
    ELSE And32(cidr.ip, Not32(Sub32(Pow2(32 - cidr.p), U32Of(1)).v))

\* the address of position i of the subnet: network_base + (i + 1)
HostAddr(cidr, i) == Add32(NetworkBase(cidr), Add32(i, U32Of(1)).v).v

\* every bit of the bit-vector is set
AllSet(bitmap) == U32Of(Cardinality(bitmap.ones)) = bitmap.len

\* the call just made was op on a subnet that was registered
OnRegistered(op) == net.last.op = op /\ net.last.cidr \in DOMAIN net.last.pre

ClearAt(cidr, ip) ==
    {i \in {U32Of(k) : k \in 0..3} :
        /\ Lt32(i, net.last.pre[cidr].len)
        /\ i \notin net.last.pre[cidr].ones
        /\ HostAddr(cidr, i) = ip}

\* C28: on every registered subnet, release_ip of the address that the
\* allocate_ip just before it returned succeeds and leaves the subnets as they
\* were before that allocate_ip; release_ip of an address whose bit is clear
\* fails with "IP not allocated" and leaves the subnets unchanged.
C28_AllocateReleaseRestores ==
    OnRegistered("release_ip") =>
        /\ net.last.undo # <<>> =>
               /\ net.last.res = "ok"
               /\ net.ipam = net.last.undo[1]
        /\ ClearAt(net.last.cidr, net.last.arg) # {} =>
               /\ net.last.res = "IP not allocated"
               /\ net.ipam = net.last.pre

\* C29: the Networks value that Networks::load reads from the saved file
\* equals the value that Networks::save wrote: the same networks, and for
\* every subnet a bit-vector of the same length with the same bits set.
C29_SaveLoadRoundTrip ==
    (net.reload.n > 0 /\ net.reload.from_file) => net.reload.loaded = net.reload.saved

\* 2^(32 - p) - 2 for 0 <= p <= 31
StatedLen(p) == IF p = 0 THEN Not32(U32Of(1)) ELSE Sub32(Pow2(32 - p), U32Of(2)).v

\* the call just made returned Err
Failed == net.last.res \notin {"ok", "panic"}

\* C30: for a prefix length p in 0..32, add_subnet either inserts a
\* bit-vector of 2^(32-p) - 2 bits or returns an error and inserts nothing;
\* allocate_ip, release_ip and allocate_specific_ip on a registered subnet do
\* not overflow or underflow a u32 and do not panic.
C30_NoOverflow ==
    /\ (net.last.op = "add_subnet" /\ net.last.cidr.p <= 32) =>
           \/ /\ net.last.res = "ok"
              /\ net.last.cidr.p < 32
              /\ net.ipam = Insert(net.last.pre, net.last.cidr,
                                   BitVecNew(StatedLen(net.last.cidr.p)))
           \/ Failed /\ net.ipam = net.last.pre
    /\ \A op \in {"allocate_ip", "release_ip", "allocate_gateway"} :
           OnRegistered(op) => ~net.last.of /\ net.last.res # "panic"

\* ---------------------------------------------------------------------------
\* WAL maintenance: WalManager::compact and WalManager::verify_integrity, both
\* called with the StorageInner mutex held, on a WAL that write_operation built

\* how many maintenance calls a run makes
MaxCompacts == 1

\* the snapshot_index arguments of compact
SnapshotIndexes == 0..(MaxSeqLen - 1)

\* the operations of the compaction runs
CompactInputs(t) == {OpCreate(NewMeta("a", "n", t)), OpDelete("a"), OpAddMount("a", Mount1)}

\* WalManager::read_all_operations: the operations of read_operations, each
\* with its position in the file, counted from 0
read_all_operations(file) ==
    LET r == read_operations(file)
    IN [res |-> r.res, ops |-> [i \in DOMAIN r.ops |-> <<i - 1, r.ops[i]>>]]

\* Iterator::skip_while(|(index, _)| *index < snapshot_index): one entry more is kept
RECURSIVE skip_while_Below(_, _)
skip_while_Below(entries, snapshot_index) ==
    IF entries = <<>> THEN <<>>
    ELSE IF Head(entries)[1] < snapshot_index
         THEN skip_while_Below(Tail(entries), snapshot_index)
         ELSE entries

\* Iterator::skip_while(|(index, _)| *index <= snapshot_index)
RECURSIVE skip_while(_, _)
skip_while(entries, snapshot_index) ==
    IF entries = <<>> THEN <<>>
    ELSE IF Head(entries)[1] <= snapshot_index
         THEN skip_while(Tail(entries), snapshot_index)
         ELSE entries

\* write_operation under the mutex: the operation is applied and appended
MaintWrite(op) ==
    /\ maint.pc = "idle"
    /\ Len(rt.ops) + maint.fails < MaxSeqLen
    /\ RoundTripStep(op)

\* write_operation fails after `written` bytes: the worker reports the error
\* and applies nothing
MaintWriteFail(op, written) ==
    /\ maint.pc = "idle"
    /\ maint.fails < MaxFail
    /\ Len(rt.ops) + maint.fails < MaxSeqLen
    /\ wal' = FailedAppend(wal, op, written)
    /\ maint' = [maint EXCEPT !.fails = @ + 1]
    /\ UNCHANGED <<state, archive, snapshots, now, chan, acks, worker, snap, due, up,
                   observed, done, log, crash, count, rt, run, sess, net, work>>

\* compact(snapshot_index) up to the open of current.wal.tmp in rewrite_wal:
\* a WAL that cannot be read ends the call, otherwise the temporary file is
\* created or truncated
compact(snapshot_index) ==
    /\ maint.pc = "idle"
    /\ maint.runs < MaxCompacts
    /\ LET current_entries == read_all_operations(wal)
       IN IF current_entries.res # "ok"
          THEN /\ maint' = [maint EXCEPT !.res = current_entries.res, !.old = wal,
                                         !.snapshot_index = snapshot_index,
                                         !.runs = @ + 1]
          ELSE /\ maint' = [maint EXCEPT !.pc = "rewrite", !.res = "none", !.old = wal,
                                         !.snapshot_index = snapshot_index,
                                         !.todo = skip_while(current_entries.ops,
                                                             snapshot_index),
                                         !.tmp = <<<<>>>>, !.runs = @ + 1]
    /\ UNCHANGED <<state, wal, archive, snapshots, now, chan, acks, worker, snap, due, up,
                   observed, done, log, crash, count, rt, run, sess, net, work>>

\* rewrite_wal: the length and the bytes of the next entry are written to
\* current.wal.tmp
rewrite_wal_write ==
    /\ maint.pc = "rewrite"
    /\ maint.todo # <<>>
    /\ maint' = [maint EXCEPT !.tmp = AppendBytes(@, Frame(Head(maint.todo)[2])),
                              !.todo = Tail(@)]
    /\ UNCHANGED <<state, wal, archive, snapshots, now, chan, acks, worker, snap, due, up,
                   observed, done, log, crash, count, rt, run, sess, net, work>>

\* rewrite_wal: a write_all fails after `written` bytes; the error is returned
\* and current.wal.tmp stays as it is
rewrite_wal_fail(written) ==
    /\ maint.pc = "rewrite"
    /\ maint.todo # <<>>
    /\ maint.fails < MaxFail
    /\ written \in FailPoints(Head(maint.todo)[2])
    /\ maint' = [maint EXCEPT !.tmp = FailedAppend(@, Head(maint.todo)[2], written),
                              !.todo = <<>>, !.pc = "failed", !.fails = @ + 1]
    /\ UNCHANGED <<state, wal, archive, snapshots, now, chan, acks, worker, snap, due, up,
                   observed, done, log, crash, count, rt, run, sess, net, work>>

\* rewrite_wal: tokio::fs::rename(temp_path, &self.current_path)
rewrite_wal_rename ==
    /\ maint.pc = "rewrite"
    /\ maint.todo = <<>>
    /\ wal' = maint.tmp
    /\ maint' = [maint EXCEPT !.tmp = NoFile, !.pc = "renamed"]
    /\ UNCHANGED <<state, archive, snapshots, now, chan, acks, worker, snap, due, up,
                   observed, done, log, crash, count, rt, run, sess, net, work>>

\* compact returns what rewrite_wal returned and the mutex is released
CompactReturn ==
    /\ maint.pc \in {"renamed", "failed"}
    /\ maint' = [maint EXCEPT !.pc = "idle",
                              !.res = IF maint.pc = "renamed" THEN "ok" ELSE "err"]
    /\ UNCHANGED <<state, wal, archive, snapshots, now, chan, acks, worker, snap, due, up,
                   observed, done, log, crash, count, rt, run, sess, net, work>>

\* the daemon dies while compact runs: the files stay as they are
MaintCrash ==
    /\ maint.pc \in {"rewrite", "renamed", "failed"}
    /\ maint' = [maint EXCEPT !.pc = "crashed", !.todo = <<>>]
    /\ UNCHANGED <<state, wal, archive, snapshots, now, chan, acks, worker, snap, due, up,
                   observed, done, log, crash, count, rt, run, sess, net, work>>

\* the daemon starts again: StorageManager::new recovers from the files, and a
\* WAL that cannot be read keeps it from starting
MaintRestart ==
    /\ maint.pc = "crashed"
    /\ maint.restarts < MaxRestarts
    /\ LET rec == recover_state(snapshots, wal, now)
       IN /\ rec.ok
          /\ state' = rec.st
    /\ maint' = [maint EXCEPT !.pc = "idle", !.res = "none", !.restarts = @ + 1]
    /\ UNCHANGED <<wal, archive, snapshots, now, chan, acks, worker, snap, due, up,
                   observed, done, log, crash, count, rt, run, sess, net, work>>

NextMaint ==
    \/ \E op \in CompactInputs(now) : MaintWrite(op)
    \/ MaintWriteFail(OpDelete("a"), 8)
    \/ \E snapshot_index \in SnapshotIndexes : compact(snapshot_index)
    \/ rewrite_wal_write
    \/ rewrite_wal_fail(8)
    \/ rewrite_wal_rename
    \/ CompactReturn
    \/ MaintCrash
    \/ MaintRestart

SpecMaint == Init /\ [][NextMaint]_vars

\* WAL maintenance claims

\* the frames of a sequence of indexed entries
RECURSIVE FramesOf(_)
FramesOf(entries) ==
    IF entries = <<>> THEN <<>> ELSE Frame(Head(entries)[2]) \o FramesOf(Tail(entries))

\* the entries of the WAL compact started from whose index is above snapshot_index
Above ==
    LET all == read_all_operations(maint.old).ops
    IN SubSeq(all, maint.snapshot_index + 2, Len(all))

RECURSIVE validate_operation(_)
validate_operation(op) ==
    LET RECURSIVE ValidateAll(_)
        ValidateAll(ops) ==
            IF ops = <<>> THEN TRUE
            ELSE IF ~validate_operation(Head(ops)) THEN FALSE
            ELSE ValidateAll(Tail(ops))
    IN CASE op.type = "Create" -> ~(op.meta.id = "" \/ op.meta.name = "")
         [] op.type \in {"UpdateStatus", "UpdateState", "Delete"} -> op.id # ""
         [] op.type = "Batch" -> ValidateAll(op.ops)
         [] OTHER -> TRUE

\* the errors verify_integrity pushes for the entries it walks
RECURSIVE Errors(_)
Errors(operations) ==
    IF operations = <<>> THEN <<>>
    ELSE (IF validate_operation(Head(operations)[2])
          THEN <<>>
          ELSE <<[index |-> Head(operations)[1], operation |-> Head(operations)[2]]>>)
         \o Errors(Tail(operations))

\* WalManager::verify_integrity under the mutex: the report of the WAL as
\* it stands, or the failure of read_all_operations
verify_integrity ==
    /\ maint.pc = "idle"
    /\ wal # maint.verified
    /\ LET operations == read_all_operations(wal)
       IN maint' = IF operations.res # "ok"
                   THEN [maint EXCEPT !.res = operations.res, !.report = NoReport,
                                      !.verified = wal]
                   ELSE [maint EXCEPT !.res = "ok", !.verified = wal,
                                      !.report = [total_operations |-> Len(operations.ops),
                                                  errors |-> Errors(operations.ops)]]
    /\ UNCHANGED <<state, wal, archive, snapshots, now, chan, acks, worker, snap, due, up,
                   observed, done, log, crash, count, rt, run, sess, net, work>>

\* IntegrityReport::is_valid
is_valid(report) == report.errors = <<>>

\* operations with and without ids and names are written, and the WAL is
\* verified at any point
NextInteg ==
    \/ \E op \in IntegrityInputs(now) : MaintWrite(op)
    \/ verify_integrity

SpecInteg == Init /\ [][NextInteg]_vars

\* an entry the specification calls invalid
RECURSIVE Invalid(_)
Invalid(op) ==
    CASE op.type = "Create" -> op.meta.id = "" \/ op.meta.name = ""
      [] op.type \in {"UpdateStatus", "UpdateState", "Delete", "AddMount", "RemoveMount"}
           -> op.id = ""
      [] op.type = "Batch" -> \E i \in DOMAIN op.ops : Invalid(op.ops[i])
      [] OTHER -> FALSE

\* the positions of the invalid entries of the verified WAL, counted from 0
InvalidIndexes ==
    {i - 1 : i \in {j \in DOMAIN rt.ops : Invalid(rt.ops[j])}}

Verified == maint.verified = wal /\ wal # NoFile /\ maint.res = "ok"

\* C32: the report of a verified WAL counts every entry, holds exactly one
\* error for each invalid entry, carrying its index, and is_valid exactly
\* when it holds no error.
C32_IntegrityReport ==
    Verified =>
        /\ maint.report.total_operations = Len(rt.ops)
        /\ {maint.report.errors[i].index : i \in DOMAIN maint.report.errors} = InvalidIndexes
        /\ Len(maint.report.errors) = Cardinality(InvalidIndexes)
        /\ is_valid(maint.report) <=> InvalidIndexes = {}

\* the same report measured against what validate_operation rejects: the
\* count, one indexed error for each rejected entry, is_valid
C32_ReportOfRejected ==
    Verified =>
        LET rejected == {j \in DOMAIN rt.ops : ~validate_operation(rt.ops[j])}
        IN /\ maint.report.total_operations = Len(rt.ops)
           /\ {maint.report.errors[i].index : i \in DOMAIN maint.report.errors}
                  = {j - 1 : j \in rejected}
           /\ Len(maint.report.errors) = Cardinality(rejected)
           /\ \A i \in DOMAIN maint.report.errors :
                  maint.report.errors[i].operation = rt.ops[maint.report.errors[i].index + 1]
           /\ is_valid(maint.report) <=> rejected = {}

\* a WAL whose only entry adds a mount to the container with the empty id
\* has been verified and found valid
C32_EmptyIdAccepted ==
    /\ Verified
    /\ Len(rt.ops) = 1
    /\ rt.ops[1] = OpAddMount("", Mount1)
    /\ is_valid(maint.report)

\* ---------------------------------------------------------------------------
\* Workspaces: new_workspace and delete_workspace on the directory {root} of
\* a container, its overlay mount {root}/mnt and the bind mount of a volume

\* the --volume arguments of Run: none, host:container, and two that do not
\* split into two non-empty parts
VolumeArgs == {None, Some("/s:/d"), Some("/s"), Some(":/d")}

\* vol.split(":").collect::<Vec<&str>>()
Split(vol) ==
    CASE vol = "/s:/d" -> <<"/s", "/d">>
      [] vol = "/s" -> <<"/s">>
      [] vol = ":/d" -> <<"", "/d">>

\* sv.len() == 2 && !sv[0].is_empty() && !sv[1].is_empty()
ValidVolume(sv) == Len(sv) = 2 /\ sv[1] # "" /\ sv[2] # ""

\* Command::new("umount").arg(mnt_path).status(): the exit status is not
\* looked at; a mount point with a mount below it is busy and stays
umount(ws) == IF ws.bind THEN ws ELSE [ws EXCEPT !.overlay = FALSE]

\* tokio::fs::remove_dir_all(root_path) on a workspace and the host directory
\* of the volume: the walk does not stop at mount points, and a directory
\* something is mounted on cannot be removed
remove_dir_all(ws, host) ==
    IF ~ws.root THEN [ws |-> ws, host |-> host, ok |-> FALSE]
    ELSE IF ws.bind
    THEN [ws |-> [ws EXCEPT !.through = TRUE], host |-> "deleted", ok |-> FALSE]
    ELSE IF ws.overlay THEN [ws |-> ws, host |-> host, ok |-> FALSE]
    ELSE [ws |-> [ws EXCEPT !.root = FALSE], host |-> host, ok |-> TRUE]

\* the `let _ = remove_dir_all(root_path)` of the failure branches
CleanUp(ws, host) ==
    LET r == remove_dir_all(ws, host)
    IN [ws |-> [r.ws EXCEPT !.pc = "failed", !.res = "err"], host |-> r.host]

\* delete_workspace(root_path, mnt_path, volume)
delete_workspace(ws, host, volume) ==
    IF volume # None /\ ~ws.bind
    THEN \* umount_volume(..)?: umount2 of a directory nothing is mounted on
         [ws |-> [ws EXCEPT !.res = "err"], host |-> host]
    ELSE LET detached == IF volume # None THEN [ws EXCEPT !.bind = FALSE] ELSE ws
             r == remove_dir_all(umount(detached), host)
         IN [ws |-> [r.ws EXCEPT !.res = IF r.ok THEN "ok" ELSE "err"], host |-> r.host]

\* what an action does to workspace w and the host directory
WorkStep(w, r) == work' = [ws |-> [work.ws EXCEPT ![w] = r.ws], host |-> r.host]

\* run_prepare calls new_workspace for a container with a fresh root
new_workspace(w, volume) ==
    /\ work.ws[w].pc = "none"
    /\ \A v \in 1..(w - 1) : work.ws[v].pc # "none"
    /\ WorkStep(w, [ws |-> [work.ws[w] EXCEPT !.pc = "ro_layer", !.volume = volume],
                    host |-> work.host])
    /\ UNCHANGED <<state, wal, archive, snapshots, now, chan, acks, worker, snap, due, up,
                   observed, done, log, crash, count, rt, run, sess, net, maint>>

\* create_ro_layer(..)?: {root}/image is created and the image extracted into
\* it; create_dir_all or tar can fail, and the error is returned as it is
create_ro_layer(w, outcome) ==
    /\ work.ws[w].pc = "ro_layer"
    /\ WorkStep(w, [ws |-> CASE outcome = "ok" ->
                                  [work.ws[w] EXCEPT !.pc = "rw_layer", !.root = TRUE]
                             [] outcome = "create_dir_all" ->
                                  [work.ws[w] EXCEPT !.pc = "failed", !.res = outcome]
                             [] outcome = "tar" ->
                                  [work.ws[w] EXCEPT !.pc = "failed", !.res = outcome,
                                                     !.root = TRUE],
                    host |-> work.host])
    /\ UNCHANGED <<state, wal, archive, snapshots, now, chan, acks, worker, snap, due, up,
                   observed, done, log, crash, count, rt, run, sess, net, maint>>

\* create_rw_layer: on failure {root} is removed
create_rw_layer(w, ok) ==
    /\ work.ws[w].pc = "rw_layer"
    /\ WorkStep(w, IF ok
                   THEN [ws |-> [work.ws[w] EXCEPT !.pc = "mount_point"], host |-> work.host]
                   ELSE CleanUp(work.ws[w], work.host))
    /\ UNCHANGED <<state, wal, archive, snapshots, now, chan, acks, worker, snap, due, up,
                   observed, done, log, crash, count, rt, run, sess, net, maint>>

\* create_mount_point: mount -t overlay; on failure {root} is removed
create_mount_point(w, ok) ==
    /\ work.ws[w].pc = "mount_point"
    /\ WorkStep(w, IF ok
                   THEN [ws |-> [work.ws[w] EXCEPT !.pc = "volume", !.overlay = TRUE],
                         host |-> work.host]
                   ELSE CleanUp(work.ws[w], work.host))
    /\ UNCHANGED <<state, wal, archive, snapshots, now, chan, acks, worker, snap, due, up,
                   observed, done, log, crash, count, rt, run, sess, net, maint>>

\* the volume branch of new_workspace: mount_volume for a volume that splits
\* into two parts; on failure, and for any other volume, umount and removal
mount_volume(w, ok) ==
    /\ work.ws[w].pc = "volume"
    /\ LET ws == work.ws[w]
       IN WorkStep(w,
            IF ws.volume = None
            THEN [ws |-> [ws EXCEPT !.pc = "created", !.res = "ok"], host |-> work.host]
            ELSE IF ValidVolume(Split(ws.volume[1])) /\ ok
            THEN [ws |-> [ws EXCEPT !.pc = "created", !.res = "ok", !.bind = TRUE],
                  host |-> work.host]
            ELSE CleanUp(umount(ws), work.host))
    /\ UNCHANGED <<state, wal, archive, snapshots, now, chan, acks, worker, snap, due, up,
                   observed, done, log, crash, count, rt, run, sess, net, maint>>

\* run_prepare after new_workspace: the clone, the child or the cgroup fails
\* and delete_workspace is called with the volume of the request
RunCleanUp(w) ==
    /\ work.ws[w].pc = "created"
    /\ LET r == delete_workspace(work.ws[w], work.host, work.ws[w].volume)
       IN WorkStep(w, [ws |-> [r.ws EXCEPT !.pc = "cleaned"], host |-> r.host])
    /\ UNCHANGED <<state, wal, archive, snapshots, now, chan, acks, worker, snap, due, up,
                   observed, done, log, crash, count, rt, run, sess, net, maint>>

\* remove_container on a container that has exited:
\* delete_workspace(&root_path, &mnt_path, &None), the error only logged
remove_container(w) ==
    /\ work.ws[w].pc = "created"
    /\ LET r == delete_workspace(work.ws[w], work.host, None)
       IN WorkStep(w, [ws |-> [r.ws EXCEPT !.pc = "removed"], host |-> r.host])
    /\ UNCHANGED <<state, wal, archive, snapshots, now, chan, acks, worker, snap, due, up,
                   observed, done, log, crash, count, rt, run, sess, net, maint>>

NextWork ==
    \E w \in Workspaces :
        \/ \E volume \in VolumeArgs : new_workspace(w, volume)
        \/ \E outcome \in {"ok", "create_dir_all", "tar"} : create_ro_layer(w, outcome)
        \/ \E ok \in BOOLEAN : create_rw_layer(w, ok)
        \/ \E ok \in BOOLEAN : create_mount_point(w, ok)
        \/ \E ok \in BOOLEAN : mount_volume(w, ok)
        \/ RunCleanUp(w)
        \/ remove_container(w)

SpecWork == Init /\ [][NextWork]_vars

\* Workspace claims

\* nothing of workspace w is left: no directory, no overlay, no bind mount
Gone(w) == ~work.ws[w].root /\ ~work.ws[w].overlay /\ ~work.ws[w].bind

\* C33: when new_workspace has returned an error, {root} does not exist and
\* no overlay or bind mount of the call remains.
C33_FailureReversed ==
    \A w \in Workspaces : work.ws[w].pc = "failed" => Gone(w)

\* the same for the failures after the read-only layer: write layer, overlay
\* mount, volume
C33_LaterFailuresReversed ==
    \A w \in Workspaces :
        (work.ws[w].pc = "failed" /\ work.ws[w].res = "err") => Gone(w)

\* tar has failed: new_workspace returned the error and {root}/image is there
C33_ImageLeft ==
    \E w \in Workspaces :
        work.ws[w].pc = "failed" /\ work.ws[w].res = "tar" /\ work.ws[w].root

\* C34: after remove_container has called delete_workspace on a workspace
\* new_workspace created, with or without a volume, no directory and no
\* mount is left, and nothing was deleted through a mounted volume.
C34_RmLeavesNothing ==
    \A w \in Workspaces :
        work.ws[w].pc = "removed" => (Gone(w) /\ ~work.ws[w].through)

\* delete_workspace called with the volume the workspace was created with,
\* as run_prepare does, and called by remove_container on a workspace
\* without a volume, leaves nothing and touches no volume
C34_SymmetricDelete ==
    \A w \in Workspaces :
        \/ work.ws[w].pc = "cleaned"
        \/ work.ws[w].pc = "removed" /\ work.ws[w].volume = None
        => (Gone(w) /\ ~work.ws[w].through /\ work.ws[w].res = "ok")

\* a container with a volume has been removed: the bind mount and the
\* overlay are still there and the host directory was emptied
C34_VolumeDeletedThrough ==
    \E w \in Workspaces :
        /\ work.ws[w].pc = "removed"
        /\ work.ws[w].bind /\ work.ws[w].overlay /\ work.ws[w].root
        /\ work.ws[w].through /\ work.host = "deleted"

\* ---------------------------------------------------------------------------
\* Batch: a state built by single operations, then one Batch applied to it

\* the children of the batches submitted at clock reading t: updates after a
\* create, a delete before and after a create of the same id, two creates
\* under one name, a batch in a batch, the empty batch, an id that is not there
BatchInputs(t) ==
    {<<OpCreate(NewMeta("a", "n", t)), OpUpdateStatus("a", "Running")>>,
     <<OpDelete("a"), OpCreate(NewMeta("a", "m", t))>>,
     <<OpCreate(NewMeta("a", "m", t)), OpDelete("a")>>,
     <<OpCreate(SetRunning(NewMeta("b", "n", t), 7, t)), OpCreate(NewMeta("a", "n", t))>>,
     <<OpBatch(<<OpCreate(NewMeta("a", "n", t)), OpAddMount("a", Mount1)>>), OpDelete("a")>>,
     <<OpAddMount("a", Mount1), OpUpdateStatus("b", "Creating"), OpDelete("a")>>,
     <<OpUpdateStatus("c", "Running")>>,
     <<>>}


\* the worker applies Batch(ops) to the state the single operations built
\* and appends it to the WAL
BatchStep(ops) ==
    /\ rt.pc \in {"off", "writing"}
    /\ state' = apply_operation(state, OpBatch(ops), now)
    /\ wal' = AppendBytes(wal, Frame(OpBatch(ops)))
    /\ rt' = [rt EXCEPT !.pc = "batched", !.batch = ops, !.before = state, !.at = now]
    /\ UNCHANGED <<archive, snapshots, now, chan, acks, worker, snap, due, up,
                   observed, done, log, crash, count, run, sess, net, maint, work>>

NextBatch ==
    \/ \E op \in OpInputs(now) \cup DurInputs(now) : RoundTripStep(op)
    \/ Tick
    \/ \E ops \in BatchInputs(now) : BatchStep(ops)

SpecBatch == Init /\ [][NextBatch]_vars

\* every name of by_name leads to a container of by_id that carries it
NamesResolve(st) ==
    \A n \in DOMAIN st.by_name :
        st.by_name[n] \in DOMAIN st.by_id /\ st.by_id[st.by_name[n]].name = n

TaskStatuses ==
    {sess.read_from_pty.st, sess.client_to_pty.st, sess.check_child_exit.st,
     sess.pty_to_client, sess.pty_to_log}

\* do_run has returned from an attached session
AttachedOver ==
    sess.verb \in {"Run", "Exec"} /\ ~sess.detach /\ sess.released
        /\ sess.pc \in {"stop", "closed"}

\* C36: when do_run has left the select of an attached session, every task
\* it spawned is aborted or has finished: none is left running.
C36_NoTaskOutlivesSession ==
    AttachedOver => TaskStatuses \subseteq {"off", "aborted", "done"}

\* what the select does abort: pty_to_client in an attached session, and
\* read_from_pty and pty_to_log when a detached session returns
C36_AbortedTasks ==
    /\ AttachedOver => sess.pty_to_client = "aborted"
    /\ (sess.verb = "Run" /\ sess.detach /\ sess.released /\ sess.pc \in {"stop", "closed"})
           => (sess.read_from_pty.st = "aborted" /\ sess.pty_to_log = "aborted")

\* the client has left an attached session whose container still runs:
\* do_run has returned, and read_from_pty and the child-exit waiter are
\* detached, not aborted
C36_TasksLeftRunning ==
    /\ AttachedOver
    /\ sess.child = "running"
    /\ sess.read_from_pty.st = "detached"
    /\ sess.check_child_exit.st = "detached"

\* Operations on ids that are not there

\* the operation the worker has just answered is a Delete or an UpdateStatus
\* for an id the state did not hold when the worker took the mutex
MissingId ==
    /\ done.res \in {"ok", "err"}
    /\ done.op.type \in {"Delete", "UpdateStatus"}
    /\ done.op.id \notin DOMAIN done.pre.by_id

\* C37: a Delete or UpdateStatus for an id that is not in the state leaves
\* by_id and by_name as they were, and is acknowledged with Ok exactly when
\* its frame has been appended to the WAL: the missing id is no error.
C37_MissingIdIsNoOp ==
    MissingId =>
        /\ done.post = done.pre
        /\ done.res = "ok" <=> done.walpost = AppendBytes(done.walpre, Frame(done.op))
        /\ acks[done.ack] = done.res

\* a Delete for an id that is not there was acknowledged with Ok on a state
\* that holds another container
C37_Witness ==
    /\ MissingId
    /\ done.res = "ok"
    /\ done.op.type = "Delete"
    /\ done.pre # EmptyState

\* ---------------------------------------------------------------------------
\* The storage actor and callers that go away: the future of execute is
\* dropped between its send and the acknowledgement, and with it the
\* receiving half of the oneshot channel

\* the task that awaits ack_rx is aborted or unwinds: the receiver is dropped
CallerGone ==
    /\ up
    /\ \E i \in DOMAIN acks :
          /\ acks[i] = "pending"
          /\ acks' = [acks EXCEPT ![i] = "dropped"]
    /\ UNCHANGED <<state, wal, archive, snapshots, now, chan, worker, snap, due, up,
                   observed, done, log, crash, count>>
    /\ UNCHANGED <<rt, run, sess, net, maint, work>>

\* execute while the worker runs
AckExecute(op) ==
    /\ worker.pc # "panicked"
    /\ Execute(op)

\* execute after the worker task has ended: op_recver is dropped, the send
\* fails and execute returns the error
ExecuteClosed ==
    /\ up
    /\ worker.pc = "panicked"
    /\ Len(acks) < MaxOps
    /\ acks' = Append(acks, "closed")
    /\ UNCHANGED <<state, wal, archive, snapshots, now, chan, worker, snap, due, up,
                   observed, done, log, crash, count>>
    /\ UNCHANGED <<rt, run, sess, net, maint, work>>

\* the worker loop where the receiver of the acknowledgement is still there
AckApply ==
    /\ worker.pc = "written"
    /\ (Len(worker.todo) > 1 \/ acks[worker.ack] = "pending")
    /\ WorkerApply

AckWriteFail ==
    /\ worker.pc = "locked"
    /\ acks[worker.ack] = "pending"
    /\ WorkerWriteFail

\* ack_tx.send(Ok(())).unwrap() after the last arm of apply_operation, the
\* receiver dropped: send returns Err(Ok(())), unwrap panics, the worker task
\* ends and the mutex guard is released by the unwinding
ApplySendPanics ==
    /\ up
    /\ worker.pc = "written"
    /\ Len(worker.todo) = 1
    /\ acks[worker.ack] = "dropped"
    /\ state' = ApplyPrim(state, Head(worker.todo), now)
    /\ worker' = [worker EXCEPT !.pc = "panicked", !.todo = <<>>]
    /\ log' = [log EXCEPT !.applied = Append(@, worker.ack),
                          !.commits = Append(@, state')]
    /\ UNCHANGED <<wal, archive, snapshots, now, chan, acks, snap, due, up, observed,
                   done, crash, count>>
    /\ UNCHANGED <<rt, run, sess, net, maint, work>>

\* ack_tx.send(Err(e)).unwrap() after a failed write_operation, the receiver
\* dropped
FailSendPanics ==
    /\ up
    /\ worker.pc = "locked"
    /\ acks[worker.ack] = "dropped"
    /\ count.fails < MaxFail
    /\ \E written \in FailPoints(worker.op) : wal' = FailedAppend(wal, worker.op, written)
    /\ worker' = [worker EXCEPT !.pc = "panicked", !.todo = <<>>]
    /\ count' = [count EXCEPT !.fails = @ + 1]
    /\ UNCHANGED <<state, archive, snapshots, now, chan, acks, snap, due, up, observed,
                   done, log, crash>>
    /\ UNCHANGED <<rt, run, sess, net, maint, work>>

NextAck ==
    \/ \E op \in OpInputs(now) : AckExecute(op)
    \/ ExecuteClosed
    \/ CallerGone
    \/ WorkerRecv
    \/ WorkerWriteWal
    \/ AckWriteFail
    \/ AckApply
    \/ ApplySendPanics
    \/ FailSendPanics

SpecAck == Init /\ [][NextAck]_vars

\* C38: the storage worker is never stopped by a caller that went away
\* before it read its acknowledgement, and operations sent afterwards are
\* taken by the worker.
C38_WorkerSurvivesLostReceiver ==
    /\ worker.pc # "panicked"
    /\ \A i \in DOMAIN acks : acks[i] # "closed"

\* an operation whose caller went away is written and applied, the worker
\* task has ended on the send, and the operation of another caller stays in
\* the channel or is refused
C38_WorkerEnded ==
    /\ worker.pc = "panicked"
    /\ \E i \in DOMAIN acks : acks[i] = "dropped" /\ (\E k \in DOMAIN log.applied : log.applied[k] = i)
    /\ \E i \in DOMAIN acks : acks[i] \in {"pending", "closed"}

\* Snapshots and crashes

\* the daemon was killed while take_snapshot was between the start of the
\* write of tmp.snapshot and the rename
CrashedInSnapshot == crash.happened /\ crash.snap \in {"writing", "written"}

\* C39: a daemon killed during take_snapshot recovers, and to the state that
\* the finished snapshot-*.bin files and the WAL give: tmp.snapshot is not
\* what load_latest returns.
C39_SnapshotCrashHarmless ==
    CrashedInSnapshot =>
        /\ crash.ok
        /\ crash.finished.ok
        /\ crash.after = crash.finished.st

\* the finished files alone would have recovered, and the daemon killed
\* while tmp.snapshot was being written did not start again
C39_TempFileLoaded ==
    /\ CrashedInSnapshot
    /\ crash.snap = "writing"
    /\ crash.finished.ok
    /\ ~crash.ok

\* a daemon killed after the write of tmp.snapshot had finished, before the
\* rename, starts again: the temporary file is read as the latest snapshot
C39_CompleteTempRecovers ==
    (crash.happened /\ crash.snap = "written") => crash.ok

\* Exec and the log of the container

\* the log file of the container the session works on
SessionLog == <<sess.id, RunLogFile>>

\* an Exec session has found its container running and entered do_run
ExecEntered == sess.verb = "Exec" /\ sess.id # ""

\* C40: an Exec session leaves {root}/log.log of its container as it was when
\* the connection was accepted.
C40_ExecKeepsLog ==
    (ExecEntered /\ SessionLog \in DOMAIN sess.before.files) =>
        /\ SessionLog \in DOMAIN sess.files
        /\ sess.files[SessionLog] = sess.before.files[SessionLog]

\* an Exec session has emptied a log that held output of the container
C40_LogTruncatedByExec ==
    /\ ExecEntered
    /\ sess.released
    /\ SessionLog \in DOMAIN sess.before.files
    /\ sess.before.files[SessionLog] # <<>>
    /\ sess.files[SessionLog] = <<>>

\* outside Run and Exec sessions no verb changes the log files
C40_OtherVerbsKeepLogs ==
    sess.verb \notin {"Run", "Exec", "RM", ""} => sess.files = sess.before.files
====
